---- MODULE Spec2Model ----
(***************************************************************************)
(* Model of the Arduino language server proxy (handler/handler.go).        *)
(*                                                                         *)
(* The workbench (InoHandler) is shared by the IDE reader, which runs      *)
(* HandleMessageFromIDE for one message at a time (the handler is given to *)
(* jsonrpc2.NewConn unwrapped), the initialisation tasks spawned by        *)
(* `initialize`, the rebuild loop, the symbol tasks the handler spawns     *)
(* (refreshCppDocumentSymbols, checkCppDocumentSymbols) and the handlers   *)
(* of clangd's notifications, each on its own goroutine.  dataMux is a     *)
(* sync.RWMutex and clangdStarted a sync.Cond whose Locker is dataMux,     *)
(* i.e. its Lock and Unlock methods: the write side.                       *)
(*                                                                         *)
(* Text is modelled by lines: a document is a sequence of line tokens, the *)
(* synthetic unit a sequence of lines tagged with the .ino file they come  *)
(* from (NotIno for generated prototypes), and an LSP range is the pair of *)
(* its start and end lines.                                                *)
(*                                                                         *)
(* The formatter's configuration (ls/ls_formatter.go) is modelled next to  *)
(* it: the file system is a map from paths to contents, and every          *)
(* formatting request writes and removes the .clang-format of its target.  *)
(***************************************************************************)
EXTENDS Integers, Sequences, FiniteSets, TLC

\* ---------------------------------------------------------------- bounds
MaxIdeMsgs == 4        \* IDE messages handled in one run
MaxInit == 2           \* `initialize` requests accepted in one run
MaxSymTasks == 2       \* symbol tasks alive at the same time
MaxClangdMsgs == 2     \* publishDiagnostics notifications clangd delivers in one run
RebuildDelay == 2      \* the rebuild delay, in clock ticks

\* sync.RWMutex: the offset a pending writer subtracts from readerCount
rwmutexMaxReaders == 1073741824

\* ------------------------------------------------------------ the inputs
InoA == "a.ino"
InoB == "b.ino"
CppX == "x.cpp"
NotIno == "not-ino"
CppURI == "sketch.ino.cpp"
URIs == {InoA, InoB, CppX}

Ext(uri) == IF uri \in {InoA, InoB} THEN ".ino" ELSE ".cpp"

Nil == "nil"
NoConn == 0
NoMapper == [Text |-> <<>>, Version |-> 0]
NoRange == [Start |-> -1, End |-> -1]
NoDeadline == -1

VARIABLES
    dataMux,        \* the RWMutex: [w, readerCount, readerWait, writerSem, readerSem]
    pc,             \* position of every goroutine
    crashed,        \* the runtime threw a fatal error (or os.Exit was called)
    ClangdConn,     \* NoConn (nil), or the number of the connection
    connsCreated,   \* clangd connections created so far
    ideMsg,         \* the message HandleMessageFromIDE is handling
    ideWaited,      \* the handler went through clangdStarted.Wait()
    ideCount,       \* IDE messages read so far
    ideResult,      \* what the last finished handler returned
    initRuns,       \* outcome of every finished initialisation task, in order
    clangdIn,       \* messages sent to clangd, in order
    docs,           \* tracked documents: uri -> NoDoc or [Version, Text]
    sketchTrackedFilesCount,
    sketchMapper,   \* NoMapper (nil) or [Text, Version]: the source map with its CppText
    buildPath,      \* Nil or the preprocessor's output directory
    rebuildSketchDeadline,  \* NoDeadline (nil), or the ticks left until the deadline
    sinceSchedule,  \* ticks since scheduleRebuildEnvironment was last called (capped)
    lastRebuild,    \* what the last run of the rebuild found and did
    buildSketchSymbols,         \* the cached function symbols of the synthetic unit
    buildSketchSymbolsLoad,
    buildSketchSymbolsCheck,
    symTask,        \* per symbol task: what it runs and its oldSymbols
    symbolReply,    \* clangd's last reply to textDocument/documentSymbol
    inoDocsWithDiagnostics,     \* the .ino URIs with diagnostics at the IDE
    clangdNotificationCount,
    clangdReq,      \* per handler of a clangd notification: its locals
    ideOut,         \* the publishDiagnostics sent to the IDE, in order
    disk,           \* the file system: path -> Absent or the content of the file
    lsConfig,       \* ls.config: [FormatterConf], Nil or the path of the user's file
    fmtReq          \* per formatting request: its position, target and cleanup

\* The workbench of the handler.
handlerVars == <<dataMux, pc, crashed, ClangdConn, connsCreated, ideMsg, ideWaited,
                 ideCount, ideResult, initRuns, clangdIn, docs, sketchTrackedFilesCount,
                 sketchMapper, buildPath, rebuildSketchDeadline, sinceSchedule, lastRebuild,
                 buildSketchSymbols, buildSketchSymbolsLoad, buildSketchSymbolsCheck, symTask,
                 symbolReply, inoDocsWithDiagnostics, clangdNotificationCount, clangdReq, ideOut>>

\* The formatter's side: the files it reads and writes, and its requests.
fmtVars == <<disk, lsConfig, fmtReq>>

vars == <<handlerVars, fmtVars>>

\* ------------------------------------------------------- sync.RWMutex
\* The mutex is modelled field by field, since clangdStarted.Wait() calls
\* Unlock and Lock on it whatever the mode the caller holds.
NewRWMutex ==
    [w |-> FALSE, readerCount |-> 0, readerWait |-> 0, writerSem |-> 0, readerSem |-> 0]

\* A Lock() that never waits for the active readers to leave.
LockAnnounce_NoWait(m) ==
    LET r == m.readerCount
        rwait == IF r # 0 THEN m.readerWait + r ELSE m.readerWait
    IN  [mux  |-> [m EXCEPT !.w = TRUE,
                            !.readerCount = r - rwmutexMaxReaders,
                            !.readerWait = rwait],
         wait |-> FALSE]

\* Lock(), once rw.w is free: take rw.w, announce the writer to the readers,
\* and wait on writerSem when readers are active.
LockAnnounce(m) ==
    LET r == m.readerCount
        rwait == IF r # 0 THEN m.readerWait + r ELSE m.readerWait
    IN  [mux  |-> [m EXCEPT !.w = TRUE,
                            !.readerCount = r - rwmutexMaxReaders,
                            !.readerWait = rwait],
         wait |-> r # 0 /\ rwait # 0]

\* Unlock(): a fatal error when no writer is announced (or rw.w is not held),
\* else wake the blocked readers and free rw.w.
Unlock(m) ==
    LET r == m.readerCount + rwmutexMaxReaders
    IN  IF r >= rwmutexMaxReaders \/ ~m.w
        THEN [mux |-> m, throw |-> TRUE]
        ELSE [mux |-> [m EXCEPT !.readerCount = r,
                                !.readerSem = @ + (IF r > 0 THEN r ELSE 0),
                                !.w = FALSE],
              throw |-> FALSE]

\* RLock(): count the reader in; it blocks on readerSem when a writer is announced.
RLockAdd(m) == [m EXCEPT !.readerCount = @ + 1]

\* RUnlock(): count the reader out; the last reader a writer waits for wakes it.
RUnlock(m) ==
    LET r == m.readerCount - 1
    IN  IF r >= 0
        THEN [mux |-> [m EXCEPT !.readerCount = r], throw |-> FALSE]
        ELSE IF r + 1 = 0 \/ r + 1 = -rwmutexMaxReaders
        THEN [mux |-> m, throw |-> TRUE]
        ELSE [mux |-> [m EXCEPT !.readerCount = r,
                                !.readerWait = @ - 1,
                                !.writerSem = IF m.readerWait - 1 = 0 THEN @ + 1 ELSE @],
              throw |-> FALSE]

\* The lock mode HandleMessageFromIDE takes for a method.
WriteLocked(method) ==
    method \in {"initialize", "textDocument/didOpen", "textDocument/didChange",
                "textDocument/didClose"}

\* The methods that do not wait for clangd.
NeedsClangd(method) == method \notin {"initialize", "initialized"}

\* The deferred Unlock or RUnlock of HandleMessageFromIDE.
DeferredUnlock(method, m) == IF WriteLocked(method) THEN Unlock(m) ELSE RUnlock(m)

\* ------------------------------------------------------ the source map
\* A line of the synthetic unit: the .ino file it comes from and its content.
CppLine(f, t) == [File |-> f, Tok |-> t]

\* The synthetic units the preprocessor can produce (the sketch on disk varies).
GenUnits ==
    { <<CppLine(NotIno, "p"), CppLine(InoA, "x"), CppLine(InoA, "x"), CppLine(InoB, "x")>>,
      <<CppLine(NotIno, "p"), CppLine(InoA, "x"), CppLine(InoB, "x")>> }

\* The output directories the preprocessor can return.
BuildPaths == {"build1", "build2"}

\* The 1-based index in text of line l (0-based) of file f, or 0.
CppIndex(text, f, l) ==
    LET hits == {i \in 1..Len(text) :
                    /\ text[i].File = f
                    /\ Cardinality({j \in 1..(i - 1) : text[j].File = f}) = l}
    IN  IF hits = {} THEN 0 ELSE CHOOSE i \in hits : TRUE

\* sourcemapper.InoToCppLineOk: the 0-based line of the synthetic unit.
InoToCppLineOk(mapper, f, l) ==
    LET i == CppIndex(mapper.Text, f, l)
    IN  [line |-> i - 1, ok |-> i # 0]

\* sourcemapper.InoToCppLSPRangeOk: both ends map, each on its own; the
\* lines are replaced and the rest of the range is kept.
InoToCppLSPRangeOk(mapper, f, range) ==
    LET s == InoToCppLineOk(mapper, f, range.Start)
        e == InoToCppLineOk(mapper, f, range.End)
    IN  [range |-> [range EXCEPT !.Start = s.line, !.End = e.line],
         ok |-> s.ok /\ e.ok]

\* sourcemapper.InoToCppLSPRange: the same without the verdict.
InoToCppLSPRange(mapper, f, range) == InoToCppLSPRangeOk(mapper, f, range).range

\* sourcemapper.IsPreprocessedCppLine: the line is a generated prototype.
IsPreprocessedCppLine(mapper, line) ==
    /\ line + 1 \in 1..Len(mapper.Text)
    /\ mapper.Text[line + 1].File = NotIno

\* The lines first..last (1-based, inclusive) of a text replaced by new lines.
ReplaceLines(text, first, last, new) ==
    SubSeq(text, 1, first - 1) \o new \o SubSeq(text, last + 1, Len(text))

\* sourcemapper.ApplyTextChange: edit CppText at the translated range, bump
\* its version, report a dirty change (a line that takes part in prototype
\* generation, token "#", was inserted or removed).
ApplyTextChange(mapper, f, change) ==
    LET r == InoToCppLSPRangeOk(mapper, f, change.Range).range
        first == r.Start + 1
        last == r.End + 1
        new == [i \in 1..Len(change.Text) |-> CppLine(f, change.Text[i])]
    IN  [mapper |-> [Text |-> ReplaceLines(mapper.Text, first, last, new),
                     Version |-> mapper.Version + 1],
         dirty |-> \/ \E i \in first..last : mapper.Text[i].Tok = "#"
                   \/ \E i \in 1..Len(change.Text) : change.Text[i] = "#"]

\* sourcemapper.CreateInoMapper, and the version initializeWorkbench gives it.
CreateInoMapper(cppContent, version) == [Text |-> cppContent, Version |-> version]

\* ------------------------------------------------------------ symbols
\* lsp.DocumentSymbol: a name, a kind and the line of the synthetic unit it
\* spans.
DocumentSymbol(name, kind, line) ==
    [Name |-> name, Kind |-> kind, Range |-> [Start |-> line, End |-> line]]

SKFunction == "function"
SKVariable == "variable"

\* lsp.Range.Overlaps: the two ranges share a line.
Overlaps(a, b) == a.Start <= b.End /\ b.Start <= a.End

\* lsp.Range with its characters: a range of lines that also says where in
\* its first and last line it starts and ends.
LSPRange(startLine, startCharacter, endLine, endCharacter) ==
    [Start |-> startLine, End |-> endLine,
     StartCharacter |-> startCharacter, EndCharacter |-> endCharacter]

\* The range ends at the very start of its last line.
EndsAtLineStart(range) == "EndCharacter" \in DOMAIN range /\ range.EndCharacter = 0

\* sourcemapper.CppToInoRangeOk: the .ino file and the range in it of a range
\* of the synthetic unit, lines replaced and the rest kept. A range that
\* ends at the start of the line after the last line of its file is
\* adjusted to end one past that line (AdjustedRangeErr); it is an error
\* when an end is out of the unit or the ends are in different files.
CppToInoRangeOk(mapper, range) ==
    LET text == mapper.Text
        in(l) == l + 1 \in 1..Len(text)
        inoLine(l) == Cardinality({j \in 1..l : text[j].File = text[l + 1].File})
    IN  IF in(range.Start) /\ in(range.End)
           /\ text[range.Start + 1].File = text[range.End + 1].File
        THEN [file |-> text[range.Start + 1].File,
              range |-> [range EXCEPT !.Start = inoLine(range.Start),
                                      !.End = inoLine(range.End)],
              ok |-> TRUE, adjusted |-> FALSE]
        ELSE IF /\ in(range.Start) /\ in(range.End - 1) /\ EndsAtLineStart(range)
                /\ text[range.Start + 1].File = text[range.End].File
        THEN [file |-> text[range.Start + 1].File,
              range |-> [range EXCEPT !.Start = inoLine(range.Start),
                                      !.End = inoLine(range.End - 1) + 1],
              ok |-> FALSE, adjusted |-> TRUE]
        ELSE [file |-> Nil, range |-> NoRange, ok |-> FALSE, adjusted |-> FALSE]

\* sourcemapper.CppToInoRange: the same without the verdict.
CppToInoRange(mapper, range) ==
    LET r == CppToInoRangeOk(mapper, range) IN [file |-> r.file, range |-> r.range]

\* ------------------------------------------------- tracked documents
NoMsg == [method |-> Nil, uri |-> Nil, version |-> 0, languageId |-> Nil, body |-> <<>>]
NoDoc == [Version |-> 0, Text |-> <<>>, Tracked |-> FALSE]
TextDocumentItem(version, text) == [Version |-> version, Text |-> text, Tracked |-> TRUE]

\* textutils.ApplyLSPTextDocumentContentChangeEvent: every change applied in
\* order, or none when one of them is out of the document.
RECURSIVE ApplyDocChanges(_, _)
ApplyDocChanges(text, changes) ==
    IF changes = <<>> THEN [text |-> text, ok |-> TRUE]
    ELSE LET c == Head(changes)
         IN  IF c.Range.Start > c.Range.End \/ c.Range.End >= Len(text)
             THEN [text |-> text, ok |-> FALSE]
             ELSE ApplyDocChanges(
                      ReplaceLines(text, c.Range.Start + 1, c.Range.End + 1, c.Text),
                      Tail(changes))

ApplyLSPTextDocumentContentChangeEvent(doc, changes, version) ==
    LET a == ApplyDocChanges(doc.Text, changes)
    IN  IF a.ok THEN TextDocumentItem(version, a.text) ELSE doc

\* ino2cppDocumentURI: every .ino is the synthetic unit, a file of the sketch
\* folder is its mirror under the build folder.
ino2cppDocumentURI(uri) == IF Ext(uri) = ".ino" THEN CppURI ELSE "build/" \o uri

\* A conversion that leaves every range as it is.
ino2cppRange_Unmapped(mapper, inoURI, inoRange) ==
    [uri |-> ino2cppDocumentURI(inoURI), range |-> inoRange, err |-> FALSE]

\* ino2cppRange: a range of a .ino document goes through the source map, a
\* range of another file is left as it is.
ino2cppRange(mapper, inoURI, inoRange) ==
    LET cppURI == ino2cppDocumentURI(inoURI)
    IN  IF cppURI = CppURI
        THEN [uri |-> cppURI, range |-> InoToCppLSPRange(mapper, inoURI, inoRange),
              err |-> FALSE]
        ELSE [uri |-> cppURI, range |-> inoRange, err |-> FALSE]

\* ------------------------------------------------ clangd's diagnostics
\* lsp.Diagnostic: a range of lines and a code.
Diagnostic(first, last, code) == [Range |-> [Start |-> first, End |-> last], Code |-> code]

\* lsp.PublishDiagnosticsParams
PublishDiagnosticsParams(uri, diags) == [uri |-> uri, diags |-> diags]

\* inoDocumentURIFromInoPath: the URI of a tracked document, NotInoURI for
\* the generated lines, an error for a .ino file that is not tracked.
inoDocumentURIFromInoPath(d, inoPath) ==
    IF inoPath = NotIno THEN [uri |-> NotIno, err |-> FALSE]
    ELSE IF ~d[inoPath].Tracked THEN [uri |-> inoPath, err |-> TRUE]
    ELSE [uri |-> inoPath, err |-> FALSE]

\* A file under the build folder, and a file that is neither in the sketch
\* nor under the build folder.
BuildCppX == "build/" \o CppX
HeaderURI == "Arduino.h"

\* A conversion for which an adjusted range is a failure like any other.
cpp2inoDocumentURI_AdjustedFails(mapper, d, cppURI, cppRange) ==
    IF cppURI = CppURI
    THEN LET r == CppToInoRangeOk(mapper, cppRange)
         IN  IF ~r.ok THEN [uri |-> Nil, range |-> NoRange, err |-> TRUE]
             ELSE LET u == inoDocumentURIFromInoPath(d, r.file)
                  IN  [uri |-> u.uri, range |-> r.range, err |-> u.err]
    ELSE IF cppURI = HeaderURI THEN [uri |-> cppURI, range |-> cppRange, err |-> FALSE]
    ELSE [uri |-> CppX, range |-> cppRange, err |-> FALSE]

\* cpp2inoDocumentURI: a range of the synthetic unit goes through the source
\* map, an adjusted range being as good as any; a file out of the build
\* folder is left as it is, and a file under the build folder is its mirror
\* in the sketch folder.
cpp2inoDocumentURI(mapper, d, cppURI, cppRange) ==
    IF cppURI = CppURI
    THEN LET r == CppToInoRangeOk(mapper, cppRange)
         IN  IF ~r.ok /\ ~r.adjusted THEN [uri |-> Nil, range |-> NoRange, err |-> TRUE]
             ELSE LET u == inoDocumentURIFromInoPath(d, r.file)
                  IN  [uri |-> u.uri, range |-> r.range, err |-> u.err]
    ELSE IF cppURI = HeaderURI THEN [uri |-> cppURI, range |-> cppRange, err |-> FALSE]
    ELSE [uri |-> CppX, range |-> cppRange, err |-> FALSE]

\* cpp2inoDiagnostics: one batch per URI the diagnostics map to, each with
\* its diagnostics in clangd's order and in the coordinates of its file; the
\* batches come out of a Go map, in no order. Any diagnostic that fails to
\* map fails the whole conversion.
cpp2inoDiagnostics(mapper, d, cppDiags) ==
    LET diags == cppDiags.diags
        conv == [i \in 1..Len(diags) |->
                    cpp2inoDocumentURI(mapper, d, cppDiags.uri, diags[i].Range)]
        inoDiags == [i \in 1..Len(diags) |->
                        [uri |-> conv[i].uri,
                         diag |-> [diags[i] EXCEPT !.Range = conv[i].range]]]
        of(u) == SelectSeq(inoDiags, LAMBDA x : x.uri = u)
    IN  IF diags = <<>>
        THEN IF cppDiags.uri = CppURI THEN [batches |-> {}, err |-> FALSE]
             ELSE [batches |-> {PublishDiagnosticsParams(CppX, <<>>)}, err |-> FALSE]
        ELSE IF \E i \in 1..Len(diags) : conv[i].err THEN [batches |-> {}, err |-> TRUE]
        ELSE [batches |->
                {PublishDiagnosticsParams(u, [i \in 1..Len(of(u)) |-> of(u)[i].diag]) :
                    u \in {conv[i].uri : i \in 1..Len(diags)}},
              err |-> FALSE]

\* A code that raises buildSketchSymbolsCheck.
Undeclared(code) == code \in {"undeclared_var_use_suggest", "undeclared_var_use"}

\* ---------------------------------------------- the handlers' functions
\* A message to clangd; body holds the text lines, the content changes or the
\* position of the message.
Msg(method, uri, version, languageId, body) ==
    [method |-> method, uri |-> uri, version |-> version,
     languageId |-> languageId, body |-> body]

\* ino2cppTextDocumentItem
ino2cppTextDocumentItem(d, mapper, uri, languageId) ==
    LET cppURI == ino2cppDocumentURI(uri)
    IN  IF cppURI = CppURI
        THEN Msg("textDocument/didOpen", cppURI, mapper.Version, "cpp", mapper.Text)
        ELSE Msg("textDocument/didOpen", cppURI, d[uri].Version, languageId, d[uri].Text)

\* A didOpen that tells clangd of every .ino open, not only the first.
didOpen_EveryOpen(d, count, mapper, uri, item) ==
    LET d1 == [d EXCEPT ![uri] = TextDocumentItem(item.Version, item.Text)]
        count1 == IF Ext(uri) = ".ino" THEN count + 1 ELSE count
    IN  [docs |-> d1, count |-> count1, load |-> Ext(uri) = ".ino" /\ count1 = 1,
         res |-> ino2cppTextDocumentItem(d1, mapper, uri, item.LanguageID),
         err |-> FALSE]

\* didOpen: res = Nil when nothing is to be sent to clangd; load tells whether
\* buildSketchSymbolsLoad was raised (the first .ino document).
didOpen(d, count, mapper, uri, item) ==
    LET d1 == [d EXCEPT ![uri] = TextDocumentItem(item.Version, item.Text)]
        count1 == IF Ext(uri) = ".ino" THEN count + 1 ELSE count
    IN  IF Ext(uri) = ".ino" /\ count1 # 1
        THEN [docs |-> d1, count |-> count1, load |-> FALSE, res |-> NoMsg,
              err |-> FALSE]
        ELSE [docs |-> d1, count |-> count1, load |-> Ext(uri) = ".ino",
              res |-> ino2cppTextDocumentItem(d1, mapper, uri, item.LanguageID),
              err |-> FALSE]

\* A didClose that does not look the document up before it counts it out.
didClose_NoTrackedCheck(d, count, uri) ==
    LET d1 == [d EXCEPT ![uri] = NoDoc]
        count1 == IF Ext(uri) = ".ino" THEN count - 1 ELSE count
    IN  IF Ext(uri) = ".ino" /\ count1 # 0
        THEN [docs |-> d1, count |-> count1, res |-> NoMsg, err |-> FALSE]
        ELSE [docs |-> d1, count |-> count1,
              res |-> Msg("textDocument/didClose", ino2cppDocumentURI(uri), 0, Nil, <<>>),
              err |-> FALSE]

\* didClose: err for an untracked document.
didClose(d, count, uri) ==
    IF ~d[uri].Tracked
    THEN [docs |-> d, count |-> count, res |-> NoMsg, err |-> TRUE]
    ELSE LET d1 == [d EXCEPT ![uri] = NoDoc]
             count1 == IF Ext(uri) = ".ino" THEN count - 1 ELSE count
         IN  IF Ext(uri) = ".ino" /\ count1 # 0
             THEN [docs |-> d1, count |-> count1, res |-> NoMsg, err |-> FALSE]
             ELSE [docs |-> d1, count |-> count1,
                   res |-> Msg("textDocument/didClose", ino2cppDocumentURI(uri), 0, Nil, <<>>),
                   err |-> FALSE]

\* A loop that translates every range but leaves the source map as it was.
RECURSIVE ChangeLoop_InitialMap(_, _, _, _, _, _)
ChangeLoop_InitialMap(mapper, symbols, uri, changes, cppChanges, dirty) ==
    IF changes = <<>>
    THEN [ok |-> TRUE, mapper |-> mapper, cppChanges |-> cppChanges, dirty |-> dirty]
    ELSE LET inoChange == Head(changes)
             r == InoToCppLSPRangeOk(mapper, uri, inoChange.Range)
         IN  IF ~r.ok
             THEN [ok |-> FALSE, mapper |-> mapper, cppChanges |-> cppChanges,
                   dirty |-> dirty]
             ELSE LET a == ApplyTextChange(mapper, uri, inoChange)
                      hit == \E i \in 1..Len(symbols) :
                                Overlaps(symbols[i].Range, r.range)
                  IN  ChangeLoop_InitialMap(mapper, symbols, uri, Tail(changes),
                                 Append(cppChanges,
                                        [Range |-> r.range, Text |-> inoChange.Text]),
                                 dirty \/ hit \/ a.dirty)

\* A loop that asks the source mapper only, not the cached symbols.
RECURSIVE ChangeLoop_MapperOnly(_, _, _, _, _, _)
ChangeLoop_MapperOnly(mapper, symbols, uri, changes, cppChanges, dirty) ==
    IF changes = <<>>
    THEN [ok |-> TRUE, mapper |-> mapper, cppChanges |-> cppChanges, dirty |-> dirty]
    ELSE LET inoChange == Head(changes)
             r == InoToCppLSPRangeOk(mapper, uri, inoChange.Range)
         IN  IF ~r.ok
             THEN [ok |-> FALSE, mapper |-> mapper, cppChanges |-> cppChanges,
                   dirty |-> dirty]
             ELSE LET a == ApplyTextChange(mapper, uri, inoChange)
                  IN  ChangeLoop_MapperOnly(a.mapper, symbols, uri, Tail(changes),
                                 Append(cppChanges,
                                        [Range |-> r.range, Text |-> inoChange.Text]),
                                 dirty \/ a.dirty)

\* The loop of didChange over the content changes of a .ino document: it
\* stops at the first change whose range does not map. A change is dirty when
\* its translated range overlaps a cached function symbol or the source
\* mapper says so.
RECURSIVE ChangeLoop(_, _, _, _, _, _)
ChangeLoop(mapper, symbols, uri, changes, cppChanges, dirty) ==
    IF changes = <<>>
    THEN [ok |-> TRUE, mapper |-> mapper, cppChanges |-> cppChanges, dirty |-> dirty]
    ELSE LET inoChange == Head(changes)
             r == InoToCppLSPRangeOk(mapper, uri, inoChange.Range)
         IN  IF ~r.ok
             THEN [ok |-> FALSE, mapper |-> mapper, cppChanges |-> cppChanges,
                   dirty |-> dirty]
             ELSE LET a == ApplyTextChange(mapper, uri, inoChange)
                      hit == \E i \in 1..Len(symbols) :
                                Overlaps(symbols[i].Range, r.range)
                  IN  ChangeLoop(a.mapper, symbols, uri, Tail(changes),
                                 Append(cppChanges,
                                        [Range |-> r.range, Text |-> inoChange.Text]),
                                 dirty \/ hit \/ a.dirty)

\* A didChange that does not look the document up.
didChange_NoTrackedCheck(d, mapper, symbols, uri, changes, version) ==
    LET d1 == [d EXCEPT ![uri] =
                  ApplyLSPTextDocumentContentChangeEvent(d[uri], changes, version)]
        l == ChangeLoop(mapper, symbols, uri, changes, <<>>, FALSE)
    IN  IF Ext(uri) = ".ino"
        THEN [docs |-> d1, mapper |-> l.mapper, schedule |-> l.dirty,
              res |-> Msg("textDocument/didChange", CppURI, l.mapper.Version, Nil,
                          l.cppChanges),
              err |-> ~l.ok]
        ELSE [docs |-> d1, mapper |-> mapper, schedule |-> FALSE,
              res |-> Msg("textDocument/didChange", ino2cppDocumentURI(uri),
                          version, Nil, changes),
              err |-> FALSE]

\* didChange: the request for clangd (res), or err; schedule tells whether
\* scheduleRebuildEnvironment was called.
didChange(d, mapper, symbols, uri, changes, version) ==
    IF ~d[uri].Tracked
    THEN [docs |-> d, mapper |-> mapper, schedule |-> FALSE, res |-> NoMsg, err |-> TRUE]
    ELSE LET d1 == [d EXCEPT ![uri] =
                        ApplyLSPTextDocumentContentChangeEvent(d[uri], changes, version)]
         IN  IF Ext(uri) = ".ino"
             THEN LET l == ChangeLoop(mapper, symbols, uri, changes, <<>>, FALSE)
                  IN  IF ~l.ok
                      THEN [docs |-> d1, mapper |-> l.mapper, schedule |-> l.dirty,
                            res |-> NoMsg, err |-> TRUE]
                      ELSE [docs |-> d1, mapper |-> l.mapper, schedule |-> l.dirty,
                            res |-> Msg("textDocument/didChange", CppURI,
                                        l.mapper.Version, Nil, l.cppChanges),
                            err |-> FALSE]
             ELSE [docs |-> d1, mapper |-> mapper, schedule |-> FALSE,
                   res |-> Msg("textDocument/didChange", ino2cppDocumentURI(uri),
                               version, Nil, changes),
                   err |-> FALSE]

\* lsp.Position
Position(line, character) == [Line |-> line, Character |-> character]

\* A translation that sends the position on as the IDE gave it.
ino2cppTextDocumentPositionParams_SameLine(mapper, uri, position) ==
    [res |-> [uri |-> ino2cppDocumentURI(uri), position |-> position], err |-> FALSE]

\* ino2cppTextDocumentPositionParams: the document becomes the synthetic
\* unit or the mirror, and the line of a .ino position goes through the
\* source map; the rest of the position is copied.
ino2cppTextDocumentPositionParams(mapper, uri, position) ==
    IF Ext(uri) = ".ino"
    THEN LET l == InoToCppLineOk(mapper, uri, position.Line)
         IN  [res |-> [uri |-> ino2cppDocumentURI(uri),
                       position |-> [position EXCEPT !.Line = l.line]],
              err |-> ~l.ok]
    ELSE [res |-> [uri |-> ino2cppDocumentURI(uri), position |-> position],
          err |-> FALSE]

\* --------------------------------------------------- the IDE's messages
MaxChanges == 2        \* content changes in one didChange

\* The content changes an edit can carry: a plain edit of the first line, an
\* edit that touches prototype generation, and an edit past the mapped lines;
\* and an edit that puts two lines in the place of the first.
PlainChange == [Range |-> [Start |-> 0, End |-> 0], Text |-> <<"y">>]
DirtyChange == [Range |-> [Start |-> 0, End |-> 0], Text |-> <<"#">>]
GrowChange == [Range |-> [Start |-> 0, End |-> 0], Text |-> <<"y", "y">>]
ChangeSet ==
    { PlainChange, DirtyChange,
      [Range |-> [Start |-> 2, End |-> 2], Text |-> <<"y">>] }

\* The lists of content changes of one didChange: none, or edits that add a
\* line followed by any one change.
ChangeSeqs ==
    {<<>>} \cup {[i \in 1..n |-> IF i < n THEN GrowChange ELSE c] :
                    n \in 1..MaxChanges, c \in ChangeSet}

DocText == <<"x", "x">>

IdeMsg(method, uri, changes) == [method |-> method, uri |-> uri, changes |-> changes]

\* The document traffic of a session.
DocMsgs ==
    {IdeMsg(m, u, <<>>) :
        m \in {"textDocument/didOpen", "textDocument/didClose"}, u \in URIs}
    \cup {IdeMsg("textDocument/didChange", InoA, cs) : cs \in ChangeSeqs}
    \cup {IdeMsg("textDocument/didChange", CppX, <<PlainChange>>),
          IdeMsg("textDocument/hover", InoA, <<>>)}

\* The traffic around the start of clangd: one method of every kind.
LifeMsgs ==
    {IdeMsg("initialize", Nil, <<>>), IdeMsg("initialized", Nil, <<>>)}
    \cup {IdeMsg(m, InoA, <<>>) :
            m \in {"textDocument/didOpen", "textDocument/didClose", "textDocument/hover"}}
    \cup {IdeMsg("textDocument/didChange", InoA, <<c>>) : c \in ChangeSet}

\* ------------------------------------------------------------ goroutines
TaskName(i) == "init" \o ToString(i)
InitTasks == {TaskName(i) : i \in 1..MaxInit}

\* The goroutines of refreshCppDocumentSymbols and checkCppDocumentSymbols.
SymName(i) == "sym" \o ToString(i)
SymTasks == {SymName(i) : i \in 1..MaxSymTasks}
\* before and after: buildSketchSymbols as the task's refresh found it and left it.
NoSymTask == [kind |-> Nil, oldSymbols |-> <<>>, before |-> <<>>, after |-> <<>>]

\* A reply of clangd to documentSymbol, and none yet.
Reply(kind, symbols) == [kind |-> kind, symbols |-> symbols]
NoReply == Reply(Nil, <<>>)

\* The goroutine that handles clangd's n-th notification.
ClangdName(n) == "clangd" \o ToString(n)
ClangdTasks == {ClangdName(n) : n \in 1..MaxClangdMsgs}
NoReq == [uri |-> Nil, diags |-> <<>>, fresh |-> {}, stale |-> {}, new |-> {},
          cleanUp |-> FALSE, failed |-> FALSE, alone |-> FALSE, of |-> 0, prev |-> {}]

Procs == {"ide", "rebuild"} \cup InitTasks \cup SymTasks \cup ClangdTasks

\* The initialisation tasks spawned so far.
Spawned == {t \in InitTasks : pc[t] # "none"}

\* The task the next `initialize` spawns.
NextTask == TaskName(Cardinality(Spawned) + 1)

\* ------------------------------------------------ the formatter's files
MaxFormats == 2        \* formatting requests of one run

Absent == "absent"
\* The configuration baked into createClangdFormatterConfig, the content of
\* the sketch's file, of the user's file, and of a file that is in the
\* target's directory already.
DefaultConfig == "default"
SketchStyle == "sketch-style"
UserStyle == "user-style"
OtherStyle == "other"

\* paths.Path.Join
Join(dir, name) == dir \o "/" \o name

ConfName == ".clang-format"
SketchRoot == "sketch"
SketchConf == Join(SketchRoot, ConfName)
UserConf == "home/clang-format"

\* What a formatting request is about: the synthetic unit, a file, or the
\* directory it is in.
BuildSketchRoot == "build/sketch"
BuildSketchCpp == Join(BuildSketchRoot, "sketch.ino.cpp")
FormatTargets == {BuildSketchCpp, BuildSketchRoot}
BuildConf == Join(BuildSketchRoot, ConfName)

\* paths.Path.IsNotDir and paths.Path.Parent
IsNotDir(path) == path = BuildSketchCpp
Parent(path) == IF path = BuildSketchCpp THEN BuildSketchRoot ELSE "build"

FsPaths == {SketchConf, UserConf} \cup {Join(t, ConfName) : t \in FormatTargets}

\* paths.Path.Exist
Exist(fs, path) == fs[path] # Absent

\* A choice of the configuration that takes the user's file first.
createClangdFormatterConfig_UserFirst(fs, conf, cppuri, readOk, writeOk) ==
    LET try(path) == IF readOk THEN fs[path] ELSE DefaultConfig
        tried == (conf # Nil /\ Exist(fs, conf)) \/ Exist(fs, SketchConf)
        config == IF conf # Nil /\ Exist(fs, conf) THEN try(conf)
                  ELSE IF Exist(fs, SketchConf) THEN try(SketchConf)
                  ELSE DefaultConfig
        dir == IF IsNotDir(cppuri) THEN Parent(cppuri) ELSE cppuri
        targetFile == Join(dir, ConfName)
    IN  [files |-> IF writeOk THEN [fs EXCEPT ![targetFile] = config] ELSE fs,
         targetFile |-> targetFile, readErr |-> tried /\ ~readOk, err |-> ~writeOk]

\* createClangdFormatterConfig: the configuration is the sketch's file if
\* there is one, else the user's if one is configured and there; a file that
\* is there and cannot be read (readOk) leaves the baked-in configuration.
\* It is written next to the target, or in it when the target is a
\* directory; the result is the path cleanup removes and the error of the
\* write (writeOk).
createClangdFormatterConfig(fs, conf, cppuri, readOk, writeOk) ==
    LET try(path) == IF readOk THEN fs[path] ELSE DefaultConfig
        tried == Exist(fs, SketchConf) \/ (conf # Nil /\ Exist(fs, conf))
        config == IF Exist(fs, SketchConf) THEN try(SketchConf)
                  ELSE IF conf # Nil /\ Exist(fs, conf) THEN try(conf)
                  ELSE DefaultConfig
        dir == IF IsNotDir(cppuri) THEN Parent(cppuri) ELSE cppuri
        targetFile == Join(dir, ConfName)
    IN  [files |-> IF writeOk THEN [fs EXCEPT ![targetFile] = config] ELSE fs,
         targetFile |-> targetFile, readErr |-> tried /\ ~readOk, err |-> ~writeOk]

\* The cleanup createClangdFormatterConfig returns: targetFile.Remove().
cleanup(fs, targetFile) == [fs EXCEPT ![targetFile] = Absent]

FmtReqs == 1..MaxFormats
\* found: what was at targetFile when createClangdFormatterConfig was called.
NoFmtReq == [pc |-> "none", cppuri |-> Nil, targetFile |-> Nil, found |-> Absent,
             readErr |-> FALSE, err |-> FALSE, reply |-> Nil]

\* No formatting request yet, and no file.
FormatterIdle ==
    /\ disk = [f \in FsPaths |-> Absent]
    /\ lsConfig = [FormatterConf |-> Nil]
    /\ fmtReq = [r \in FmtReqs |-> NoFmtReq]

\* NewInoHandler
NewInoHandler ==
    /\ dataMux = NewRWMutex
    /\ pc = [p \in Procs |-> IF p \in {"ide", "rebuild"} THEN "idle" ELSE "none"]
    /\ crashed = FALSE
    /\ ClangdConn = NoConn
    /\ connsCreated = 0
    /\ ideMsg = IdeMsg(Nil, Nil, <<>>)
    /\ ideWaited = FALSE
    /\ ideCount = 0
    /\ ideResult = [method |-> Nil, uri |-> Nil, outcome |-> Nil]
    /\ initRuns = <<>>
    /\ clangdIn = <<>>
    /\ docs = [u \in URIs |-> NoDoc]
    /\ sketchTrackedFilesCount = 0
    /\ sketchMapper = NoMapper
    /\ buildPath = Nil
    /\ rebuildSketchDeadline = NoDeadline
    /\ sinceSchedule = RebuildDelay
    /\ lastRebuild = Nil
    /\ buildSketchSymbols = <<>>
    /\ buildSketchSymbolsLoad = FALSE
    /\ buildSketchSymbolsCheck = FALSE
    /\ symTask = [t \in SymTasks |-> NoSymTask]
    /\ symbolReply = NoReply
    /\ inoDocsWithDiagnostics = {}
    /\ clangdNotificationCount = 0
    /\ clangdReq = [t \in ClangdTasks |-> NoReq]
    /\ ideOut = <<>>

Init == NewInoHandler /\ FormatterIdle

lockVars == <<dataMux, pc, crashed>>
ideVars == <<ideMsg, ideWaited, ideCount, ideResult>>
timerVars == <<rebuildSketchDeadline, sinceSchedule>>
symVars ==
    <<buildSketchSymbols, buildSketchSymbolsLoad, buildSketchSymbolsCheck, symTask,
      symbolReply>>
diagVars == <<inoDocsWithDiagnostics, clangdNotificationCount, clangdReq, ideOut>>
benchVars == <<ClangdConn, connsCreated, initRuns, clangdIn, docs,
               sketchTrackedFilesCount, sketchMapper, buildPath,
               timerVars, lastRebuild, symVars, diagVars>>

\* dataMux.Lock(), first half: rw.w is free, the writer announces itself.
LockW(p) ==
    /\ ~crashed
    /\ pc[p] = "lockW"
    /\ ~dataMux.w
    /\ LET a == LockAnnounce(dataMux)
       IN  /\ dataMux' = a.mux
           /\ pc' = [pc EXCEPT ![p] = IF a.wait THEN "lockSem" ELSE "locked"]
    /\ UNCHANGED fmtVars
    /\ UNCHANGED <<crashed, ideVars, benchVars>>

\* dataMux.Lock(), second half: the last active reader has left.
LockSem(p) ==
    /\ ~crashed
    /\ pc[p] = "lockSem"
    /\ dataMux.writerSem > 0
    /\ dataMux' = [dataMux EXCEPT !.writerSem = @ - 1]
    /\ pc' = [pc EXCEPT ![p] = "locked"]
    /\ UNCHANGED fmtVars
    /\ UNCHANGED <<crashed, ideVars, benchVars>>

\* dataMux.RLock() of a reader that found a writer announced: the writer's
\* Unlock woke it.
RLockSem(p) ==
    /\ ~crashed
    /\ pc[p] = "rlockSem"
    /\ dataMux.readerSem > 0
    /\ dataMux' = [dataMux EXCEPT !.readerSem = @ - 1]
    /\ pc' = [pc EXCEPT ![p] = "locked"]
    /\ UNCHANGED fmtVars
    /\ UNCHANGED <<crashed, ideVars, benchVars>>

\* The IDE reader reads a message and HandleMessageFromIDE asks for its lock.
IdeRecv(msg) ==
    /\ ~crashed
    /\ pc["ide"] = "idle"
    /\ ideCount < MaxIdeMsgs
    /\ msg.method = "initialize" => Cardinality(Spawned) < MaxInit
    /\ ideMsg' = msg
    /\ ideWaited' = FALSE
    /\ ideCount' = ideCount + 1
    /\ IF WriteLocked(msg.method)
       THEN /\ pc' = [pc EXCEPT !["ide"] = "lockW"]
            /\ dataMux' = dataMux
       ELSE /\ dataMux' = RLockAdd(dataMux)
            /\ pc' = [pc EXCEPT !["ide"] =
                        IF dataMux'.readerCount < 0 THEN "rlockSem" ELSE "locked"]
    /\ UNCHANGED fmtVars
    /\ UNCHANGED <<crashed, ideResult, benchVars>>

\* clangdStarted.Wait(), first half: join the waiters and call dataMux.Unlock(),
\* the Locker of the condition, whatever the lock the handler holds.
IdeWait ==
    /\ ~crashed
    /\ pc["ide"] = "locked"
    /\ NeedsClangd(ideMsg.method)
    /\ ClangdConn = NoConn
    /\ ~ideWaited
    /\ LET u == Unlock(dataMux)
       IN  /\ dataMux' = u.mux
           /\ crashed' = u.throw
           /\ pc' = [pc EXCEPT !["ide"] = IF u.throw THEN @ ELSE "condWait"]
    /\ ideWaited' = TRUE
    /\ UNCHANGED fmtVars
    /\ UNCHANGED <<ideMsg, ideCount, ideResult, benchVars>>

\* The handler returns: its deferred Unlock or RUnlock runs.
Return(outcome) ==
    LET u == DeferredUnlock(ideMsg.method, dataMux)
    IN  /\ dataMux' = u.mux
        /\ crashed' = u.throw
        /\ ideResult' = [method |-> ideMsg.method, uri |-> ideMsg.uri, outcome |-> outcome]
        /\ UNCHANGED <<ideMsg, ideWaited, ideCount>>

\* The handler is past the wait for clangd and runs the method.
Running ==
    /\ ~crashed
    /\ pc["ide"] = "locked"
    /\ NeedsClangd(ideMsg.method) => ClangdConn # NoConn

\* After the wakeup clangd is still nil: "could not start clangd, aborted".
IdeUnavailable ==
    /\ ~crashed
    /\ pc["ide"] = "locked"
    /\ NeedsClangd(ideMsg.method)
    /\ ClangdConn = NoConn
    /\ ideWaited
    /\ Return("unavailable")
    /\ pc' = [pc EXCEPT !["ide"] = "idle"]
    /\ UNCHANGED fmtVars
    /\ UNCHANGED benchVars

\* A handler that gives the write lock up before it has returned.
IdeInitialize_EarlyUnlock ==
    /\ Running
    /\ ideMsg.method = "initialize"
    /\ dataMux' = Unlock(dataMux).mux
    /\ pc' = [pc EXCEPT !["ide"] = "returning", ![NextTask] = "lockW"]
    /\ UNCHANGED fmtVars
    /\ UNCHANGED <<crashed, ideVars, benchVars>>

\* `initialize`: the go statement spawns the initialisation task, whose first
\* step is dataMux.Lock(); the handler still holds the write lock.
IdeInitialize ==
    /\ Running
    /\ ideMsg.method = "initialize"
    /\ pc' = [pc EXCEPT !["ide"] = "returning", ![NextTask] = "lockW"]
    /\ UNCHANGED fmtVars
    /\ UNCHANGED <<dataMux, crashed, ideVars, benchVars>>

\* `initialize` returns the capabilities: the deferred Unlock runs.
IdeInitializeReturn ==
    /\ ~crashed
    /\ pc["ide"] = "returning"
    /\ Return("capabilities")
    /\ pc' = [pc EXCEPT !["ide"] = "idle"]
    /\ UNCHANGED fmtVars
    /\ UNCHANGED benchVars

\* `initialized`: not propagated to clangd.
IdeInitialized ==
    /\ Running
    /\ ideMsg.method = "initialized"
    /\ Return("local")
    /\ pc' = [pc EXCEPT !["ide"] = "idle"]
    /\ UNCHANGED fmtVars
    /\ UNCHANGED benchVars

\* A schedule that keeps a deadline that is already set.
scheduleRebuildEnvironment_KeepDeadline(deadline) ==
    IF deadline # NoDeadline THEN deadline ELSE RebuildDelay

\* scheduleRebuildEnvironment: the deadline is now + the delay, whatever it
\* was. The result is the time left until the deadline.
scheduleRebuildEnvironment(deadline) == RebuildDelay

\* A handler's calls of scheduleRebuildEnvironment, if any.
ScheduleIf(called) ==
    /\ rebuildSketchDeadline' =
          IF called THEN scheduleRebuildEnvironment(rebuildSketchDeadline)
          ELSE rebuildSketchDeadline
    /\ sinceSchedule' = IF called THEN 0 ELSE sinceSchedule

\* The end of HandleMessageFromIDE once the message went to clangd without
\* error: a raised buildSketchSymbolsLoad is cleared and `go
\* refreshCppDocumentSymbols()` runs, then the same with
\* buildSketchSymbolsCheck and checkCppDocumentSymbols. ok: goroutines are
\* left for the tasks to spawn.
HandlerTail(forwarded, p, st, load, check) ==
    LET free == {t \in SymTasks : p[t] = "none"}
        need == (IF load THEN 1 ELSE 0) + (IF check THEN 1 ELSE 0)
        enough == Cardinality(free) >= need
        refresher == IF load /\ enough THEN CHOOSE t \in free : TRUE ELSE Nil
        checker == IF check /\ enough THEN CHOOSE t \in free \ {refresher} : TRUE
                   ELSE Nil
    IN  IF ~forwarded
        THEN [ok |-> TRUE, pc |-> p, symTask |-> st, load |-> load, check |-> check]
        ELSE [ok |-> enough,
              pc |-> [q \in Procs |-> IF q = refresher THEN "lockW"
                                      ELSE IF q = checker THEN "readOld" ELSE p[q]],
              symTask |-> [t \in SymTasks |->
                              IF t = refresher THEN [NoSymTask EXCEPT !.kind = "refresh"]
                              ELSE IF t = checker THEN [NoSymTask EXCEPT !.kind = "check"]
                              ELSE st[t]],
              load |-> FALSE, check |-> FALSE]

\* The handler ends: the flags, the spawned tasks and the handler's position.
EndHandler(forwarded, load) ==
    LET t == HandlerTail(forwarded, pc, symTask, load, buildSketchSymbolsCheck)
    IN  /\ t.ok
        /\ pc' = [t.pc EXCEPT !["ide"] = "idle"]
        /\ symTask' = t.symTask
        /\ buildSketchSymbolsLoad' = t.load
        /\ buildSketchSymbolsCheck' = t.check

\* The item of a didOpen notification.
OpenItem(uri) ==
    [Version |-> 1, Text |-> DocText,
     LanguageID |-> IF Ext(uri) = ".ino" THEN "ino" ELSE "cpp"]

IdeDidOpen ==
    /\ Running
    /\ ideMsg.method = "textDocument/didOpen"
    /\ LET r == didOpen(docs, sketchTrackedFilesCount, sketchMapper, ideMsg.uri,
                        OpenItem(ideMsg.uri))
       IN  /\ docs' = r.docs
           /\ sketchTrackedFilesCount' = r.count
           /\ IF r.res.method = Nil
              THEN clangdIn' = clangdIn /\ Return("local")
              ELSE clangdIn' = Append(clangdIn, r.res) /\ Return("forwarded")
           /\ EndHandler(r.res.method # Nil, buildSketchSymbolsLoad \/ r.load)
    /\ UNCHANGED fmtVars
    /\ UNCHANGED <<ClangdConn, connsCreated, initRuns, sketchMapper, buildPath,
                   timerVars, lastRebuild, buildSketchSymbols, symbolReply, diagVars>>

\* didClose: when didClose() fails the switch case does nothing, and the
\* notification goes on to clangd with the parameters the IDE sent.
IdeDidClose ==
    /\ Running
    /\ ideMsg.method = "textDocument/didClose"
    /\ LET r == didClose(docs, sketchTrackedFilesCount, ideMsg.uri)
       IN  /\ docs' = r.docs
           /\ sketchTrackedFilesCount' = r.count
           /\ IF r.err
              THEN /\ clangdIn' = Append(clangdIn,
                          Msg("textDocument/didClose", ideMsg.uri, 0, Nil, <<>>))
                   /\ Return("forwarded")
              ELSE IF r.res.method = Nil
              THEN clangdIn' = clangdIn /\ Return("local")
              ELSE clangdIn' = Append(clangdIn, r.res) /\ Return("forwarded")
           /\ EndHandler(r.err \/ r.res.method # Nil, buildSketchSymbolsLoad)
    /\ UNCHANGED fmtVars
    /\ UNCHANGED <<ClangdConn, connsCreated, initRuns, sketchMapper, buildPath,
                   timerVars, lastRebuild, buildSketchSymbols, symbolReply, diagVars>>

IdeDidChange ==
    /\ Running
    /\ ideMsg.method = "textDocument/didChange"
    /\ LET r == didChange(docs, sketchMapper, buildSketchSymbols, ideMsg.uri,
                          ideMsg.changes, docs[ideMsg.uri].Version + 1)
       IN  /\ docs' = r.docs
           /\ sketchMapper' = r.mapper
           /\ ScheduleIf(r.schedule)
           /\ IF r.err
              THEN clangdIn' = clangdIn /\ Return("error")
              ELSE clangdIn' = Append(clangdIn, r.res) /\ Return("forwarded")
    /\ pc' = [pc EXCEPT !["ide"] = "idle"]
    /\ UNCHANGED fmtVars
    /\ UNCHANGED <<ClangdConn, connsCreated, initRuns, sketchTrackedFilesCount,
                   buildPath, lastRebuild, symVars, diagVars>>

\* A position request, under the read lock.
IdeHover ==
    /\ Running
    /\ ideMsg.method = "textDocument/hover"
    /\ LET r == ino2cppTextDocumentPositionParams(sketchMapper, ideMsg.uri,
                                                  Position(0, 0))
       IN  /\ IF r.err
              THEN clangdIn' = clangdIn /\ Return("error")
              ELSE /\ clangdIn' = Append(clangdIn,
                          Msg("textDocument/hover", r.res.uri, 0, Nil,
                              <<r.res.position.Line>>))
                   /\ Return("forwarded")
           /\ EndHandler(~r.err, buildSketchSymbolsLoad)
    /\ UNCHANGED fmtVars
    /\ UNCHANGED <<ClangdConn, connsCreated, initRuns, docs, sketchTrackedFilesCount,
                   sketchMapper, buildPath, timerVars, lastRebuild, buildSketchSymbols, symbolReply,
                   diagVars>>

\* ------------------------------------------------- initializeWorkbench
InitOutcomes == {"ok", "preprocessor", "readfile", "panic", "initialize", "initialized"}
RebuildOutcomes == {"ok", "preprocessor", "readfile", "notify"}

\* An initializeWorkbench that starts the version over on a rebuild too.
initializeWorkbench_RestartVersion(isInit, outcome, bp, gen, mapper, bpath, conn, conns) ==
    LET newMapper == CreateInoMapper(gen, 1)
        same == [buildPath |-> bpath, mapper |-> mapper, conn |-> conn,
                 conns |-> conns, sent |-> <<>>]
    IN  IF outcome = "preprocessor" THEN same
        ELSE IF outcome = "readfile" THEN [same EXCEPT !.buildPath = bp]
        ELSE IF ~isInit
        THEN [same EXCEPT !.buildPath = bp, !.mapper = newMapper,
                !.sent = IF outcome = "notify" THEN <<>>
                         ELSE <<Msg("textDocument/didChange", CppURI, newMapper.Version,
                                    Nil, <<[Range |-> NoRange, Text |-> newMapper.Text]>>)>>]
        ELSE [same EXCEPT !.buildPath = bp, !.mapper = newMapper]

\* initializeWorkbench(ctx, params): isInit is params != nil. outcome names
\* the step that fails ("ok": none), bp and gen are what the preprocessor
\* produces. The result holds the fields it assigns and what it sends.
initializeWorkbench(isInit, outcome, bp, gen, mapper, bpath, conn, conns) ==
    LET currCppTextVersion == IF isInit THEN 0 ELSE mapper.Version
        newMapper == CreateInoMapper(gen, currCppTextVersion + 1)
        same == [buildPath |-> bpath, mapper |-> mapper, conn |-> conn,
                 conns |-> conns, sent |-> <<>>]
    IN  IF outcome = "preprocessor" THEN same
        ELSE IF outcome = "readfile" THEN [same EXCEPT !.buildPath = bp]
        ELSE IF ~isInit
        THEN [same EXCEPT !.buildPath = bp, !.mapper = newMapper,
                !.sent = IF outcome = "notify" THEN <<>>
                         ELSE <<Msg("textDocument/didChange", CppURI, newMapper.Version,
                                    Nil, <<[Range |-> NoRange, Text |-> newMapper.Text]>>)>>]
        ELSE IF outcome = "panic"
        THEN [same EXCEPT !.buildPath = bp, !.mapper = newMapper]
        ELSE [buildPath |-> bp, mapper |-> newMapper, conn |-> conns + 1,
              conns |-> conns + 1,
              sent |-> IF outcome = "initialize"
                       THEN <<Msg("initialize", Nil, 0, Nil, <<>>)>>
                       ELSE IF outcome = "initialized"
                       THEN <<Msg("initialize", Nil, 0, Nil, <<>>)>>
                       ELSE <<Msg("initialize", Nil, 0, Nil, <<>>),
                              Msg("initialized", Nil, 0, Nil, <<>>)>>]

\* clangdStarted.Broadcast(): every waiter goes on to dataMux.Lock().
Broadcast(p) == [q \in Procs |-> IF p[q] = "condWait" THEN "lockW" ELSE p[q]]

\* The task `initialize` spawned, once it holds the write lock: it runs
\* initializeWorkbench, broadcasts (unless startClangd panicked) and unlocks.
InitRun(t, outcome, bp, gen) ==
    /\ ~crashed
    /\ t \in InitTasks
    /\ pc[t] = "locked"
    /\ LET r == initializeWorkbench(TRUE, outcome, bp, gen, sketchMapper, buildPath,
                                    ClangdConn, connsCreated)
           u == Unlock(dataMux)
           done == [pc EXCEPT ![t] = "done"]
       IN  /\ buildPath' = r.buildPath
           /\ sketchMapper' = r.mapper
           /\ ClangdConn' = r.conn
           /\ connsCreated' = r.conns
           /\ clangdIn' = clangdIn \o r.sent
           /\ dataMux' = u.mux
           /\ crashed' = u.throw
           /\ pc' = IF outcome = "panic" THEN done ELSE Broadcast(done)
    /\ initRuns' = Append(initRuns, outcome)
    /\ UNCHANGED fmtVars
    /\ UNCHANGED <<ideVars, docs, sketchTrackedFilesCount, timerVars, lastRebuild,
                   symVars, diagVars>>

\* Time passes: one tick less until the deadline, one more since the last
\* call of scheduleRebuildEnvironment.
Tick ==
    /\ ~crashed
    /\ rebuildSketchDeadline > 0 \/ sinceSchedule < RebuildDelay
    /\ rebuildSketchDeadline' =
          IF rebuildSketchDeadline > 0 THEN rebuildSketchDeadline - 1
          ELSE rebuildSketchDeadline
    /\ sinceSchedule' =
          IF sinceSchedule < RebuildDelay THEN sinceSchedule + 1 ELSE sinceSchedule
    /\ UNCHANGED fmtVars
    /\ UNCHANGED <<lockVars, ideVars, ClangdConn, connsCreated, initRuns, clangdIn,
                   docs, sketchTrackedFilesCount, sketchMapper, buildPath, lastRebuild,
                   symVars, diagVars>>

\* rebuildEnvironmentLoop: the deadline is set and past; clear it and rebuild.
RebuildWake ==
    /\ ~crashed
    /\ pc["rebuild"] = "idle"
    /\ rebuildSketchDeadline = 0
    /\ rebuildSketchDeadline' = NoDeadline
    /\ pc' = [pc EXCEPT !["rebuild"] = "lockW"]
    /\ UNCHANGED fmtVars
    /\ UNCHANGED <<dataMux, crashed, ideVars, ClangdConn, connsCreated, initRuns,
                   clangdIn, docs, sketchTrackedFilesCount, sketchMapper, buildPath,
                   sinceSchedule, lastRebuild, symVars, diagVars>>

\* The deadline passes and rebuildEnvironmentLoop finds it past, in one step:
\* the ticks up to the deadline, then RebuildWake.
RebuildDue ==
    /\ ~crashed
    /\ pc["rebuild"] = "idle"
    /\ rebuildSketchDeadline # NoDeadline
    /\ rebuildSketchDeadline' = NoDeadline
    /\ sinceSchedule' =
          IF sinceSchedule + rebuildSketchDeadline < RebuildDelay
          THEN sinceSchedule + rebuildSketchDeadline ELSE RebuildDelay
    /\ pc' = [pc EXCEPT !["rebuild"] = "lockW"]
    /\ UNCHANGED fmtVars
    /\ UNCHANGED <<dataMux, crashed, ideVars, ClangdConn, connsCreated, initRuns,
                   clangdIn, docs, sketchTrackedFilesCount, sketchMapper, buildPath,
                   lastRebuild, symVars, diagVars>>

\* The rebuild under the write lock: initializeWorkbench(ctx, nil).
RebuildRun(outcome, bp, gen) ==
    /\ ~crashed
    /\ pc["rebuild"] = "locked"
    /\ LET r == initializeWorkbench(FALSE, outcome, bp, gen, sketchMapper, buildPath,
                                    ClangdConn, connsCreated)
           u == Unlock(dataMux)
       IN  /\ buildPath' = r.buildPath
           /\ sketchMapper' = r.mapper
           /\ ClangdConn' = r.conn
           /\ connsCreated' = r.conns
           /\ clangdIn' = clangdIn \o r.sent
           /\ dataMux' = u.mux
           /\ crashed' = u.throw
    /\ lastRebuild' = outcome
    /\ pc' = [pc EXCEPT !["rebuild"] = "idle"]
    /\ UNCHANGED fmtVars
    /\ UNCHANGED <<ideVars, initRuns, docs, sketchTrackedFilesCount, timerVars,
                   symVars, diagVars>>

\* ------------------------------------------------------ the symbol tasks
\* clangd's replies to textDocument/documentSymbol: the request fails, the
\* reply is null, a SymbolInformation array, or a DocumentSymbol array.
SymF == DocumentSymbol("f", SKFunction, 1)
SymG == DocumentSymbol("g", SKFunction, 3)
SymV == DocumentSymbol("v", SKVariable, 0)
SymbolArrays == {<<SymV, SymF>>, <<SymG>>, <<SymF, SymV, SymG>>}
SymbolReplies ==
    {Reply(k, <<>>) : k \in {"error", "null", "information"}}
    \cup {Reply("symbols", a) : a \in SymbolArrays}

\* The reply of a session where clangd is not in question: the sketch has a
\* variable and a function.
SketchSymbols == Reply("symbols", <<SymV, SymF>>)

\* A refresh that stores the reply as it is.
FunctionSymbols_All(symbols) == symbols

\* The filter of refreshCppDocumentSymbols: the symbols of kind function, in order.
FunctionSymbols(symbols) == SelectSeq(symbols, LAMBDA sym : sym.Kind = SKFunction)

\* transformClangdResult on the reply to documentSymbol for the synthetic
\* unit: a DocumentSymbol array comes back as it is (cpp2inoDocumentSymbols
\* leaves a document that is not a .ino alone), a SymbolInformation array
\* panics, null is no array.
transformClangdResult(reply) ==
    [panic |-> reply.kind = "information",
     ok |-> reply.kind = "symbols",
     symbols |-> reply.symbols]

\* refreshCppDocumentSymbols, the list it leaves in buildSketchSymbols and
\* its error.
refreshCppDocumentSymbols(stored, reply) ==
    IF reply.kind = "error" THEN [symbols |-> stored, err |-> TRUE, panic |-> FALSE]
    ELSE LET r == transformClangdResult(reply)
         IN  IF r.panic THEN [symbols |-> stored, err |-> TRUE, panic |-> TRUE]
             ELSE IF ~r.ok THEN [symbols |-> stored, err |-> TRUE, panic |-> FALSE]
             ELSE [symbols |-> FunctionSymbols(r.symbols), err |-> FALSE,
                   panic |-> FALSE]

\* checkCppDocumentSymbols, before the refresh: oldSymbols is read, no lock held.
SymReadOld(t) ==
    /\ ~crashed
    /\ t \in SymTasks
    /\ pc[t] = "readOld"
    /\ symTask' = [symTask EXCEPT ![t].oldSymbols = buildSketchSymbols]
    /\ pc' = [pc EXCEPT ![t] = "lockW"]
    /\ UNCHANGED fmtVars
    /\ UNCHANGED <<dataMux, crashed, ideVars, ClangdConn, connsCreated, initRuns,
                   clangdIn, docs, sketchTrackedFilesCount, sketchMapper, buildPath,
                   timerVars, lastRebuild, buildSketchSymbols, symbolReply, buildSketchSymbolsLoad,
                   buildSketchSymbolsCheck, diagVars>>

\* refreshCppDocumentSymbols under the write lock: the request, clangd's
\* reply, the filter, the assignment, the deferred Unlock. The goroutine has
\* no recover: a panic ends the process.
SymRefresh(t, reply) ==
    /\ ~crashed
    /\ t \in SymTasks
    /\ pc[t] = "locked"
    /\ LET r == refreshCppDocumentSymbols(buildSketchSymbols, reply)
           u == Unlock(dataMux)
           goesOn == symTask[t].kind = "check" /\ ~r.err
       IN  /\ buildSketchSymbols' = r.symbols
           /\ symbolReply' = reply
           /\ IF r.panic
              THEN crashed' = TRUE /\ dataMux' = dataMux
              ELSE crashed' = u.throw /\ dataMux' = u.mux
           /\ pc' = [pc EXCEPT ![t] = IF r.panic THEN @
                                      ELSE IF goesOn THEN "compareLen" ELSE "none"]
           /\ symTask' = [symTask EXCEPT ![t] =
                              IF r.panic \/ goesOn
                              THEN [@ EXCEPT !.before = buildSketchSymbols,
                                             !.after = r.symbols]
                              ELSE NoSymTask]
    /\ clangdIn' = Append(clangdIn,
                          Msg("textDocument/documentSymbol", CppURI, 0, Nil, <<>>))
    /\ UNCHANGED fmtVars
    /\ UNCHANGED <<ideVars, ClangdConn, connsCreated, initRuns, docs,
                   sketchTrackedFilesCount, sketchMapper, buildPath, timerVars,
                   lastRebuild, buildSketchSymbolsLoad, buildSketchSymbolsCheck,
                   diagVars>>

\* checkCppDocumentSymbols, after the refresh, no lock held: the lengths of
\* oldSymbols and of buildSketchSymbols as it is now.
SymCompareLen(t) ==
    /\ ~crashed
    /\ t \in SymTasks
    /\ pc[t] = "compareLen"
    /\ LET differ == Len(symTask[t].oldSymbols) # Len(buildSketchSymbols)
       IN  /\ ScheduleIf(differ)
           /\ pc' = [pc EXCEPT ![t] = IF differ THEN "none" ELSE "compareNames"]
           /\ symTask' = [symTask EXCEPT ![t] = IF differ THEN NoSymTask ELSE @]
    /\ UNCHANGED fmtVars
    /\ UNCHANGED <<dataMux, crashed, ideVars, ClangdConn, connsCreated, initRuns,
                   clangdIn, docs, sketchTrackedFilesCount, sketchMapper, buildPath,
                   lastRebuild, buildSketchSymbols, symbolReply, buildSketchSymbolsLoad,
                   buildSketchSymbolsCheck, diagVars>>

\* The loop over oldSymbols: schedules at the first index where the names
\* differ, and panics at the first index buildSketchSymbols no longer has.
CompareNames(old, new) ==
    LET bad == {i \in 1..Len(old) : i > Len(new) \/ old[i].Name # new[i].Name}
        first == CHOOSE i \in bad : \A j \in bad : i <= j
    IN  [schedule |-> bad # {} /\ first <= Len(new),
         panic |-> bad # {} /\ first > Len(new)]

SymCompareNames(t) ==
    /\ ~crashed
    /\ t \in SymTasks
    /\ pc[t] = "compareNames"
    /\ LET c == CompareNames(symTask[t].oldSymbols, buildSketchSymbols)
       IN  /\ ScheduleIf(c.schedule)
           /\ crashed' = c.panic
           /\ pc' = [pc EXCEPT ![t] = IF c.panic THEN @ ELSE "none"]
           /\ symTask' = [symTask EXCEPT ![t] = IF c.panic THEN @ ELSE NoSymTask]
    /\ UNCHANGED fmtVars
    /\ UNCHANGED <<dataMux, ideVars, ClangdConn, connsCreated, initRuns,
                   clangdIn, docs, sketchTrackedFilesCount, sketchMapper, buildPath,
                   lastRebuild, buildSketchSymbols, symbolReply, buildSketchSymbolsLoad,
                   buildSketchSymbolsCheck, diagVars>>

\* A step of a symbol task once it has the lock or needs none.
SymRun(t) ==
    \/ SymReadOld(t)
    \/ \E reply \in SymbolReplies : SymRefresh(t, reply)
    \/ SymCompareLen(t)
    \/ SymCompareNames(t)

\* ------------------------------------------- clangd's notifications
\* The publishDiagnostics clangd sends: for the synthetic unit, on a line of
\* a.ino with the code of an undeclared name, on a prototype and the two
\* lines after the prototypes, and none; and for another file of the sketch.
ClangdMsgs ==
    {PublishDiagnosticsParams(CppURI, ds) :
        ds \in {<<Diagnostic(1, 1, "undeclared_var_use")>>,
                <<Diagnostic(0, 0, "e0"), Diagnostic(1, 1, "e1"), Diagnostic(2, 2, "e2")>>,
                <<>>}}
    \cup {PublishDiagnosticsParams("build/x.cpp", <<Diagnostic(0, 0, "e0")>>)}

\* The handlers of clangd's notifications that are running.
ActiveClangd == {p \in ClangdTasks : pc[p] \notin {"none", "done"}}

\* What the IDE receives: a batch and the number of the notification of
\* clangd it was sent for.
ToIDE(batch, n) == [uri |-> batch.uri, diags |-> batch.diags, of |-> n]

\* clangd was told that the document is open: it publishes diagnostics for
\* open documents only.
OpenAtClangd(uri) ==
    LET about == SelectSeq(clangdIn,
                    LAMBDA m : /\ m.uri = uri
                               /\ m.method \in {"textDocument/didOpen",
                                                 "textDocument/didClose"})
    IN  about # <<>> /\ about[Len(about)].method = "textDocument/didOpen"

\* clangd's n-th notification arrives and its handler, on a goroutine of its
\* own, asks for the read lock.
ClangdRecv(msg) ==
    /\ ~crashed
    /\ ClangdConn # NoConn
    /\ OpenAtClangd(msg.uri)
    /\ clangdNotificationCount < MaxClangdMsgs
    /\ LET p == ClangdName(clangdNotificationCount + 1)
       IN  /\ dataMux' = RLockAdd(dataMux)
           /\ pc' = [pc EXCEPT ![p] =
                        IF dataMux'.readerCount < 0 THEN "rlockSem" ELSE "locked"]
           /\ clangdReq' = [q \in ClangdTasks |->
                                IF q = p
                                THEN [NoReq EXCEPT !.uri = msg.uri, !.diags = msg.diags,
                                                   !.alone = ActiveClangd = {},
                                                   !.of = clangdNotificationCount + 1,
                                                   !.prev = inoDocsWithDiagnostics]
                                ELSE IF q \in ActiveClangd
                                THEN [clangdReq[q] EXCEPT !.alone = FALSE]
                                ELSE clangdReq[q]]
    /\ clangdNotificationCount' = clangdNotificationCount + 1
    /\ UNCHANGED fmtVars
    /\ UNCHANGED <<crashed, ideVars, ClangdConn, connsCreated, initRuns, clangdIn, docs,
                   sketchTrackedFilesCount, sketchMapper, buildPath, timerVars,
                   lastRebuild, symVars, inoDocsWithDiagnostics, ideOut>>

\* The handler returns: its deferred RUnlock runs.
ClangdReturn(p) ==
    LET u == RUnlock(dataMux)
    IN  /\ dataMux' = u.mux
        /\ crashed' = u.throw
        /\ pc' = [pc EXCEPT ![p] = "done"]

\* Under the read lock: cpp2inoDiagnostics; its error ends the handler.
ClangdConvert(p) ==
    /\ ~crashed
    /\ p \in ClangdTasks
    /\ pc[p] = "locked"
    /\ LET r == cpp2inoDiagnostics(sketchMapper, docs, clangdReq[p])
       IN  IF r.err
           THEN /\ clangdReq' = [clangdReq EXCEPT ![p].failed = TRUE]
                /\ ClangdReturn(p)
           ELSE /\ clangdReq' = [clangdReq EXCEPT ![p].fresh = r.batches,
                                                  ![p].cleanUp = r.batches = {}]
                /\ pc' = [pc EXCEPT ![p] = "fresh"]
                /\ UNCHANGED <<dataMux, crashed>>
    /\ UNCHANGED fmtVars
    /\ UNCHANGED <<ideVars, ClangdConn, connsCreated, initRuns, clangdIn, docs,
                   sketchTrackedFilesCount, sketchMapper, buildPath, timerVars,
                   lastRebuild, symVars, inoDocsWithDiagnostics,
                   clangdNotificationCount, ideOut>>

\* The loop over the converted batches: the batch of the generated lines is
\* skipped, a .ino batch is noted (and raises buildSketchSymbolsCheck when it
\* holds an undeclared name), and the batch goes to the IDE.
ClangdFresh(p, batch) ==
    /\ ~crashed
    /\ p \in ClangdTasks
    /\ pc[p] = "fresh"
    /\ batch \in clangdReq[p].fresh
    /\ LET ino == Ext(batch.uri) = ".ino"
           skip == batch.uri = NotIno
       IN  /\ clangdReq' = [clangdReq EXCEPT
                  ![p].fresh = @ \ {batch},
                  ![p].cleanUp = @ \/ skip \/ ino,
                  ![p].new = IF ino /\ ~skip THEN @ \cup {batch.uri} ELSE @]
           /\ buildSketchSymbolsCheck' =
                 (\/ buildSketchSymbolsCheck
                  \/ ino /\ ~skip /\ \E i \in 1..Len(batch.diags) :
                                         Undeclared(batch.diags[i].Code))
           /\ ideOut' = IF skip THEN ideOut
                        ELSE Append(ideOut, ToIDE(batch, clangdReq[p].of))
    /\ UNCHANGED fmtVars
    /\ UNCHANGED <<lockVars, ideVars, ClangdConn, connsCreated, initRuns, clangdIn, docs,
                   sketchTrackedFilesCount, sketchMapper, buildPath, timerVars,
                   lastRebuild, buildSketchSymbols, symbolReply, buildSketchSymbolsLoad, symTask,
                   inoDocsWithDiagnostics, clangdNotificationCount>>

\* After the loop: with cleanUpInoDiagnostics the handler goes over the
\* stored inoDocsWithDiagnostics, else it returns.
ClangdEndFresh(p) ==
    /\ ~crashed
    /\ p \in ClangdTasks
    /\ pc[p] = "fresh"
    /\ clangdReq[p].fresh = {}
    /\ IF clangdReq[p].cleanUp
       THEN /\ clangdReq' = [clangdReq EXCEPT
                   ![p].stale = inoDocsWithDiagnostics \ clangdReq[p].new]
            /\ pc' = [pc EXCEPT ![p] = "stale"]
            /\ UNCHANGED <<dataMux, crashed>>
       ELSE /\ clangdReq' = clangdReq
            /\ ClangdReturn(p)
    /\ UNCHANGED fmtVars
    /\ UNCHANGED <<ideVars, ClangdConn, connsCreated, initRuns, clangdIn, docs,
                   sketchTrackedFilesCount, sketchMapper, buildPath, timerVars,
                   lastRebuild, symVars, inoDocsWithDiagnostics,
                   clangdNotificationCount, ideOut>>

\* An empty batch for a stored URI this notification has nothing for.
ClangdStale(p, uri) ==
    /\ ~crashed
    /\ p \in ClangdTasks
    /\ pc[p] = "stale"
    /\ uri \in clangdReq[p].stale
    /\ clangdReq' = [clangdReq EXCEPT ![p].stale = @ \ {uri}]
    /\ ideOut' = Append(ideOut,
                        ToIDE(PublishDiagnosticsParams(uri, <<>>), clangdReq[p].of))
    /\ UNCHANGED fmtVars
    /\ UNCHANGED <<lockVars, ideVars, ClangdConn, connsCreated, initRuns, clangdIn, docs,
                   sketchTrackedFilesCount, sketchMapper, buildPath, timerVars,
                   lastRebuild, symVars, inoDocsWithDiagnostics,
                   clangdNotificationCount>>

\* handler.inoDocsWithDiagnostics = inoDocsWithDiagnostics, and the return.
ClangdFinish(p) ==
    /\ ~crashed
    /\ p \in ClangdTasks
    /\ pc[p] = "stale"
    /\ clangdReq[p].stale = {}
    /\ inoDocsWithDiagnostics' = clangdReq[p].new
    /\ ClangdReturn(p)
    /\ UNCHANGED fmtVars
    /\ UNCHANGED <<ideVars, ClangdConn, connsCreated, initRuns, clangdIn, docs,
                   sketchTrackedFilesCount, sketchMapper, buildPath, timerVars,
                   lastRebuild, symVars, clangdNotificationCount, clangdReq, ideOut>>

\* A step of FromClangd once it has the read lock.
FromClangd(p) ==
    \/ ClangdConvert(p)
    \/ \E batch \in clangdReq[p].fresh : ClangdFresh(p, batch)
    \/ ClangdEndFresh(p)
    \/ \E uri \in clangdReq[p].stale : ClangdStale(p, uri)
    \/ ClangdFinish(p)

Next ==
    \/ \E p \in Procs : LockW(p)
    \/ \E p \in Procs : LockSem(p)
    \/ \E p \in Procs : RLockSem(p)
    \/ \E msg \in LifeMsgs : IdeRecv(msg)
    \/ IdeWait
    \/ IdeUnavailable
    \/ IdeInitialize
    \/ IdeInitializeReturn
    \/ IdeInitialized
    \/ IdeDidOpen
    \/ IdeDidClose
    \/ IdeDidChange
    \/ IdeHover
    \/ \E t \in InitTasks, o \in InitOutcomes, bp \in BuildPaths, gen \in GenUnits :
          InitRun(t, o, bp, gen)
    \/ RebuildDue
    \/ \E o \in RebuildOutcomes, bp \in BuildPaths, gen \in GenUnits :
          RebuildRun(o, bp, gen)
    \/ \E t \in SymTasks : SymRefresh(t, SketchSymbols)

Spec == Init /\ [][Next]_vars

\* Every goroutine that can take a step eventually takes one; the IDE is free
\* to stop sending.
IdeStep ==
    \/ LockW("ide") \/ LockSem("ide") \/ RLockSem("ide")
    \/ IdeWait \/ IdeUnavailable \/ IdeInitialize \/ IdeInitializeReturn
    \/ IdeInitialized \/ IdeDidOpen \/ IdeDidClose \/ IdeDidChange \/ IdeHover

InitStep(t) ==
    \/ LockW(t) \/ LockSem(t)
    \/ \E o \in InitOutcomes, bp \in BuildPaths, gen \in GenUnits : InitRun(t, o, bp, gen)

RebuildDueStep ==
    \/ LockW("rebuild") \/ LockSem("rebuild") \/ RebuildDue
    \/ \E o \in RebuildOutcomes, bp \in BuildPaths, gen \in GenUnits :
          RebuildRun(o, bp, gen)

SymStep(t) ==
    \/ LockW(t) \/ LockSem(t)
    \/ SymRefresh(t, SketchSymbols)

FairSpec ==
    /\ Spec
    /\ WF_vars(IdeStep)
    /\ \A t \in InitTasks : WF_vars(InitStep(t))
    /\ WF_vars(RebuildDueStep)
    /\ \A t \in SymTasks : WF_vars(SymStep(t))

\* ------------------------------------------- a session once clangd runs
\* The state after `initialize` and a successful initialisation task, for
\* any output of the preprocessor.
DocInit ==
    /\ dataMux = NewRWMutex
    /\ pc = [p \in Procs |-> IF p = TaskName(1) THEN "done"
                              ELSE IF p \in {"ide", "rebuild"} THEN "idle" ELSE "none"]
    /\ crashed = FALSE
    /\ ClangdConn = 1
    /\ connsCreated = 1
    /\ ideMsg = IdeMsg("initialize", Nil, <<>>)
    /\ ideWaited = FALSE
    /\ ideCount = 1
    /\ ideResult = [method |-> "initialize", uri |-> Nil, outcome |-> "capabilities"]
    /\ initRuns = <<"ok">>
    /\ clangdIn = <<Msg("initialize", Nil, 0, Nil, <<>>), Msg("initialized", Nil, 0, Nil, <<>>)>>
    /\ docs = [u \in URIs |-> NoDoc]
    /\ sketchTrackedFilesCount = 0
    /\ \E gen \in GenUnits : sketchMapper = CreateInoMapper(gen, 1)
    /\ buildPath \in BuildPaths
    /\ rebuildSketchDeadline = NoDeadline
    /\ sinceSchedule = RebuildDelay
    /\ lastRebuild = Nil
    /\ buildSketchSymbols = <<>>
    /\ buildSketchSymbolsLoad = FALSE
    /\ buildSketchSymbolsCheck = FALSE
    /\ symTask = [t \in SymTasks |-> NoSymTask]
    /\ symbolReply = NoReply
    /\ inoDocsWithDiagnostics = {}
    /\ clangdNotificationCount = 0
    /\ clangdReq = [t \in ClangdTasks |-> NoReq]
    /\ ideOut = <<>>
    /\ FormatterIdle

DocNext ==
    \/ \E p \in Procs : LockW(p)
    \/ \E p \in Procs : LockSem(p)
    \/ \E p \in Procs : RLockSem(p)
    \/ \E msg \in DocMsgs : IdeRecv(msg)
    \/ IdeDidOpen
    \/ IdeDidClose
    \/ IdeDidChange
    \/ IdeHover
    \/ RebuildDue
    \/ \E o \in RebuildOutcomes, bp \in BuildPaths, gen \in GenUnits :
          RebuildRun(o, bp, gen)
    \/ \E t \in SymTasks : SymRefresh(t, SketchSymbols)

DocSpec == DocInit /\ [][DocNext]_vars

\* ------------------------------------------ edits of an open sketch, timed
\* The IDE opens a.ino and edits it, with and without a dirty change; every
\* goroutine that can take a step eventually takes one, and time passes.
\* Nothing here takes the read lock, so no Lock() waits for readers to leave.
TimerMsgs ==
    {IdeMsg("textDocument/didOpen", InoA, <<>>)}
    \cup {IdeMsg("textDocument/didChange", InoA, <<c>>) : c \in {PlainChange, DirtyChange}}

\* The sketch on disk stays as it is: the preprocessor gives the same unit
\* in the same directory every time.
TimerUnit ==
    <<CppLine(NotIno, "p"), CppLine(InoA, "x"), CppLine(InoA, "x"), CppLine(InoB, "x")>>

TimerInit ==
    /\ DocInit
    /\ buildPath = "build1"
    /\ sketchMapper = CreateInoMapper(TimerUnit, 1)

TimerRebuildStep ==
    \/ LockW("rebuild")
    \/ RebuildWake
    \/ \E o \in RebuildOutcomes : RebuildRun(o, "build1", TimerUnit)

TimerNext ==
    \/ \E p \in Procs : LockW(p)
    \/ \E msg \in TimerMsgs : IdeRecv(msg)
    \/ IdeDidOpen
    \/ IdeDidChange
    \/ Tick
    \/ RebuildWake
    \/ \E o \in RebuildOutcomes : RebuildRun(o, "build1", TimerUnit)
    \/ \E t \in SymTasks : SymRefresh(t, SketchSymbols)

TimerSpec ==
    /\ TimerInit
    /\ [][TimerNext]_vars
    /\ WF_vars(IdeStep)
    /\ WF_vars(TimerRebuildStep)
    /\ WF_vars(Tick)
    /\ \A t \in SymTasks : WF_vars(SymStep(t))

\* --------------------------------- diagnostics for a sketch being opened
\* The IDE opens the tabs of the sketch while clangd publishes diagnostics.
DiagMsgs == {IdeMsg("textDocument/didOpen", u, <<>>) : u \in URIs}

DiagNext ==
    \/ \E p \in Procs : LockW(p)
    \/ \E p \in Procs : LockSem(p)
    \/ \E p \in Procs : RLockSem(p)
    \/ \E msg \in DiagMsgs : IdeRecv(msg)
    \/ IdeDidOpen
    \/ \E t \in SymTasks : SymReadOld(t)
    \/ \E t \in SymTasks : SymRefresh(t, SketchSymbols)
    \/ \E t \in SymTasks : SymCompareLen(t)
    \/ \E t \in SymTasks : SymCompareNames(t)
    \/ \E msg \in ClangdMsgs : ClangdRecv(msg)
    \/ \E p \in ClangdTasks : FromClangd(p)

DiagSpec == DocInit /\ [][DiagNext]_vars

\* ------------------------------------- the symbols of an open sketch
\* The IDE opens a.ino and hovers over it, clangd publishes diagnostics and
\* answers documentSymbol in every way it can, and time passes.
SymMsgs == {IdeMsg(m, InoA, <<>>) : m \in {"textDocument/didOpen", "textDocument/hover"}}

\* clangd's diagnostics: an undeclared name in a.ino, and none.
SymClangdMsgs ==
    {PublishDiagnosticsParams(CppURI, ds) :
        ds \in {<<Diagnostic(1, 1, "undeclared_var_use")>>, <<>>}}

SymNext ==
    \/ \E p \in Procs : LockW(p)
    \/ \E p \in Procs : LockSem(p)
    \/ \E p \in Procs : RLockSem(p)
    \/ \E msg \in SymMsgs : IdeRecv(msg)
    \/ IdeDidOpen
    \/ IdeHover
    \/ \E t \in SymTasks : SymRun(t)
    \/ \E msg \in SymClangdMsgs : ClangdRecv(msg)
    \/ \E p \in ClangdTasks : FromClangd(p)
    \/ Tick

SymSpec == DocInit /\ [][SymNext]_vars

\* ------------------------------------- clangd's results, translated
\* A result of clangd is tagged with its Go type; nil is NoResult.
NoResult == [kind |-> Nil]

\* strings.HasPrefix, a text being the sequence of its characters.
HasPrefix(text, c) == Len(text) > 0 /\ text[1] = c

\* lsp.TextEdit, and the nil *lsp.TextEdit.
TextEdit(range, newText) == [Range |-> range, NewText |-> newText]
NoTextEdit == TextEdit(NoRange, Nil)

\* lsp.Hover, lsp.CompletionItem, lsp.CompletionList
Hover(contents, range) == [kind |-> "Hover", Contents |-> contents, Range |-> range]
CompletionItem(insertText, textEdit) == [InsertText |-> insertText, TextEdit |-> textEdit]
CompletionList(items) == [kind |-> "CompletionList", Items |-> items]

\* lsp.Location, lsp.SymbolInformation, lsp.DocumentHighlight, and the
\* arrays of them.
Location(uri, range) == [URI |-> uri, Range |-> range]
SymbolInformation(name, location) == [Name |-> name, Location |-> location]
DocumentHighlight(kind, range) == [Kind |-> kind, Range |-> range]
Locations(items) == [kind |-> "[]Location", Items |-> items]
SymbolInformations(items) == [kind |-> "[]SymbolInformation", Items |-> items]
DocumentHighlights(items) == [kind |-> "[]DocumentHighlight", Items |-> items]

\* lsp.DocumentSymbol with its selection range and children, and the array
\* of them clangd answers documentSymbol with.
SymbolNode(name, range, selectionRange, children) ==
    [Name |-> name, Kind |-> SKFunction, Range |-> range,
     SelectionRange |-> selectionRange, Children |-> children]
DocumentSymbolArray(items) == [kind |-> "DocumentSymbolArray", Items |-> items]

\* lsp.WorkspaceEdit: Changes maps a URI to its edits.
WorkspaceEdit(changes) == [kind |-> "WorkspaceEdit", Changes |-> changes]

\* cppToIno of transformClangdResult: the URI the request came with is the
\* synthetic unit.
cppToIno(inoURI) == inoURI # Nil /\ inoURI = CppURI

\* transformClangdResult, case *lsp.Hover
transformHover(mapper, inoURI, r) ==
    IF r.Contents = "" THEN NoResult
    ELSE IF cppToIno(inoURI)
    THEN [r EXCEPT !.Range = CppToInoRange(mapper, r.Range).range]
    ELSE r

\* transformClangdResult, case *lsp.CompletionList: the items whose insert
\* text does not start with an underscore.
transformCompletionList(mapper, inoURI, r) ==
    LET kept == SelectSeq(r.Items, LAMBDA item : ~HasPrefix(item.InsertText, "_"))
    IN  [r EXCEPT !.Items =
            [i \in 1..Len(kept) |->
                IF cppToIno(inoURI) /\ kept[i].TextEdit # NoTextEdit
                THEN [kept[i] EXCEPT
                         !.TextEdit.Range = CppToInoRange(mapper, @).range]
                ELSE kept[i]]]

\* cpp2inoLocation
cpp2inoLocation(mapper, d, cppLocation) ==
    LET r == cpp2inoDocumentURI(mapper, d, cppLocation.URI, cppLocation.Range)
    IN  [loc |-> Location(r.uri, r.range), err |-> r.err]

\* cpp2inoDocumentHighlight
cpp2inoDocumentHighlight(mapper, d, cppHighlight, cppURI) ==
    LET r == cpp2inoDocumentURI(mapper, d, cppURI, cppHighlight.Range)
    IN  [hl |-> DocumentHighlight(cppHighlight.Kind, r.range), err |-> r.err]

\* transformClangdResult, case *[]lsp.Location: nil at the first location
\* that does not convert.
transformLocations(mapper, d, r) ==
    LET conv == [i \in 1..Len(r.Items) |-> cpp2inoLocation(mapper, d, r.Items[i])]
    IN  IF \E i \in 1..Len(conv) : conv[i].err THEN NoResult
        ELSE [r EXCEPT !.Items = [i \in 1..Len(conv) |-> conv[i].loc]]

\* transformClangdResult, case *[]lsp.SymbolInformation
transformSymbolInformation(mapper, d, r) ==
    LET conv == [i \in 1..Len(r.Items) |->
                    cpp2inoLocation(mapper, d, r.Items[i].Location)]
    IN  IF \E i \in 1..Len(conv) : conv[i].err THEN NoResult
        ELSE [r EXCEPT !.Items =
                 [i \in 1..Len(conv) |-> [r.Items[i] EXCEPT !.Location = conv[i].loc]]]

\* transformClangdResult, case *[]lsp.DocumentHighlight
transformDocumentHighlights(mapper, d, cppURI, r) ==
    LET conv == [i \in 1..Len(r.Items) |->
                    cpp2inoDocumentHighlight(mapper, d, r.Items[i], cppURI)]
    IN  IF \E i \in 1..Len(conv) : conv[i].err THEN NoResult
        ELSE [r EXCEPT !.Items = [i \in 1..Len(conv) |-> conv[i].hl]]

\* A filter that does not look at the file a symbol is in.
RECURSIVE cpp2inoDocumentSymbols_AnyFile(_, _, _)
cpp2inoDocumentSymbols_AnyFile(mapper, origSymbols, origURI) ==
    IF Ext(origURI) # ".ino" \/ origSymbols = <<>> THEN origSymbols
    ELSE LET symbol == Head(origSymbols)
             ino == CppToInoRange(mapper, symbol.Range)
             inoSelection == CppToInoRange(mapper, symbol.SelectionRange)
             rest == cpp2inoDocumentSymbols_AnyFile(mapper, Tail(origSymbols), origURI)
         IN  IF IsPreprocessedCppLine(mapper, symbol.Range.Start) THEN rest
             ELSE IF ino.file # inoSelection.file THEN rest
             ELSE <<[symbol EXCEPT
                        !.Range = ino.range,
                        !.SelectionRange = inoSelection.range,
                        !.Children = cpp2inoDocumentSymbols_AnyFile(mapper, @, origURI)]>>
                  \o rest

\* cpp2inoDocumentSymbols: for a .ino document, the symbols that do not
\* start on a generated line, whose range and selection range are in one
\* file and that file the document, in order, in the coordinates of the
\* document, their children likewise.
RECURSIVE cpp2inoDocumentSymbols(_, _, _)
cpp2inoDocumentSymbols(mapper, origSymbols, origURI) ==
    IF Ext(origURI) # ".ino" \/ origSymbols = <<>> THEN origSymbols
    ELSE LET symbol == Head(origSymbols)
             ino == CppToInoRange(mapper, symbol.Range)
             inoSelection == CppToInoRange(mapper, symbol.SelectionRange)
             rest == cpp2inoDocumentSymbols(mapper, Tail(origSymbols), origURI)
         IN  IF IsPreprocessedCppLine(mapper, symbol.Range.Start) THEN rest
             ELSE IF ino.file # inoSelection.file THEN rest
             ELSE IF ino.file # origURI THEN rest
             ELSE <<[symbol EXCEPT
                        !.Range = ino.range,
                        !.SelectionRange = inoSelection.range,
                        !.Children = cpp2inoDocumentSymbols(mapper, @, origURI)]>>
                  \o rest

\* A loop that gives up at the first edit that does not convert.
RECURSIVE ConvertEdits_StopAtError(_, _, _, _)
ConvertEdits_StopAtError(mapper, d, edits, changes) ==
    IF edits = <<>> THEN changes
    ELSE LET edit == Head(edits)
             r == cpp2inoDocumentURI(mapper, d, CppURI, edit.Range)
             have == IF r.uri \in DOMAIN changes THEN changes[r.uri] ELSE <<>>
         IN  IF r.err THEN changes
             ELSE ConvertEdits_StopAtError(mapper, d, Tail(edits),
                      [u \in DOMAIN changes \cup {r.uri} |->
                          IF u = r.uri
                          THEN Append(have, TextEdit(r.range, edit.NewText))
                          ELSE changes[u]])

\* The loop of cpp2inoWorkspaceEdit over the edits of the synthetic unit:
\* an edit that converts is appended to the edits of its .ino document, one
\* that does not is skipped.
RECURSIVE ConvertEdits(_, _, _, _)
ConvertEdits(mapper, d, edits, changes) ==
    IF edits = <<>> THEN changes
    ELSE LET edit == Head(edits)
             r == cpp2inoDocumentURI(mapper, d, CppURI, edit.Range)
             have == IF r.uri \in DOMAIN changes THEN changes[r.uri] ELSE <<>>
         IN  IF r.err THEN ConvertEdits(mapper, d, Tail(edits), changes)
             ELSE ConvertEdits(mapper, d, Tail(edits),
                      [u \in DOMAIN changes \cup {r.uri} |->
                          IF u = r.uri
                          THEN Append(have, TextEdit(r.range, edit.NewText))
                          ELSE changes[u]])

\* cpp2inoWorkspaceEdit: the entries of other files pass, the entry of the
\* synthetic unit is split by .ino document. (The entries come out of a Go
\* map in no order; no file clangd knows shares its URI with a .ino
\* document, so the order does not show.)
cpp2inoWorkspaceEdit(mapper, d, cppWorkspaceEdit) ==
    LET cppChanges == cppWorkspaceEdit.Changes
        passed == [u \in DOMAIN cppChanges \ {CppURI} |-> cppChanges[u]]
    IN  [cppWorkspaceEdit EXCEPT
            !.Changes = IF CppURI \in DOMAIN cppChanges
                        THEN ConvertEdits(mapper, d, cppChanges[CppURI], passed)
                        ELSE passed]

\* transformClangdResult for the results of the IDE's requests: the switch
\* on the type of the result.
transformResult(mapper, d, inoURI, cppURI, result) ==
    CASE result.kind = "Hover" -> transformHover(mapper, inoURI, result)
      [] result.kind = "CompletionList" -> transformCompletionList(mapper, inoURI, result)
      [] result.kind = "DocumentSymbolArray" ->
            [result EXCEPT !.Items = cpp2inoDocumentSymbols(mapper, @, inoURI)]
      [] result.kind = "[]Location" -> transformLocations(mapper, d, result)
      [] result.kind = "[]SymbolInformation" ->
            transformSymbolInformation(mapper, d, result)
      [] result.kind = "[]DocumentHighlight" ->
            transformDocumentHighlights(mapper, d, cppURI, result)
      [] result.kind = "WorkspaceEdit" -> cpp2inoWorkspaceEdit(mapper, d, result)
      [] OTHER -> result

\* --------------------------------- the router, with clangd's answers
MaxRouteMsgs == 2      \* IDE messages routed in one run

\* The text of an error; nil is NoError.
NoError == "nil"
DeadlineExceeded == "context deadline exceeded"
NonAddedDocument == "non-added document"
NonAddedFile == "non-added file"
unknownURI(uri) == "Document is not available: " \o uri
InvalidChangeRange == "invalid change range"

\* The errors a call of clangd can end with: the context's deadline, clangd's
\* complaints about a document it was never given, a closed connection.
CallErrors ==
    {DeadlineExceeded, "trying to get AST for non-added document",
     "-32001: non-added file", "jsonrpc2: connection is closed"}

\* strings.Contains(text, s) for the texts above.
Contains(text, s) ==
    \/ text = s
    \/ <<text, s>> \in {<<"trying to get AST for non-added document", NonAddedDocument>>,
                       <<"-32001: non-added file", NonAddedFile>>}

\* The errors after which HandleMessageFromIDE calls handler.exit().
SevereError(err) ==
    \/ err = DeadlineExceeded
    \/ Contains(err, NonAddedDocument)
    \/ Contains(err, NonAddedFile)

\* The methods the handler answers by itself.
Unsupported ==
    {"textDocument/references", "textDocument/rename", "textDocument/onTypeFormatting",
     "workspace/didChangeWatchedFiles", "workspace/executeCommand"}

\* The methods whose parameters are a position in a document.
PositionMethods ==
    {"textDocument/completion", "textDocument/hover", "textDocument/signatureHelp",
     "textDocument/definition", "textDocument/typeDefinition",
     "textDocument/implementation", "textDocument/documentHighlight"}

\* A request at a position of a document.
PositionMsg(method, uri, position) ==
    [method |-> method, uri |-> uri, changes |-> <<>>, position |-> position]

\* An unsupported method: `return nil, nil` in its case of the switch, and
\* the deferred RUnlock.
IdeUnsupported ==
    /\ Running
    /\ ideMsg.method \in Unsupported
    /\ Return("null")
    /\ pc' = [pc EXCEPT !["ide"] = "idle"]
    /\ UNCHANGED fmtVars
    /\ UNCHANGED benchVars

\* handler.exit(): StopClangd closes the connection and os.Exit(1) ends the
\* process at once, deferred calls not run. ideResult keeps the error.
exit(err) ==
    /\ crashed' = TRUE
    /\ ClangdConn' = NoConn
    /\ ideResult' = [method |-> ideMsg.method, uri |-> ideMsg.uri, outcome |-> err]
    /\ UNCHANGED fmtVars
    /\ UNCHANGED <<dataMux, pc, ideMsg, ideWaited, ideCount, symTask,
                   buildSketchSymbolsLoad, buildSketchSymbolsCheck>>

\* The end of HandleMessageFromIDE from the call of clangd on: err is what
\* Notify or SendRequest gave. Without error the symbol flags are served; a
\* severe error ends the process; any other is returned.
CallTail(msg, err) ==
    /\ clangdIn' = Append(clangdIn, msg)
    /\ IF err = NoError
       THEN /\ Return("forwarded")
            /\ EndHandler(TRUE, buildSketchSymbolsLoad)
            /\ ClangdConn' = ClangdConn
       ELSE IF SevereError(err)
       THEN exit(err)
       ELSE /\ Return(err)
            /\ EndHandler(FALSE, buildSketchSymbolsLoad)
            /\ ClangdConn' = ClangdConn

\* The translation of the parameters failed: `return nil, err`.
TranslationFailed(err) ==
    /\ Return(err)
    /\ EndHandler(FALSE, buildSketchSymbolsLoad)
    /\ UNCHANGED fmtVars
    /\ UNCHANGED <<clangdIn, ClangdConn>>

\* A position request: the parameters are translated and the request goes
\* through the common end of the handler.
IdePosition(err) ==
    /\ Running
    /\ ideMsg.method \in PositionMethods
    /\ LET r == ino2cppTextDocumentPositionParams(sketchMapper, ideMsg.uri,
                                                  ideMsg.position)
       IN  IF r.err
           THEN TranslationFailed(unknownURI(ideMsg.uri))
           ELSE CallTail(Msg(ideMsg.method, r.res.uri, 0, Nil,
                             <<r.res.position.Line, r.res.position.Character>>),
                         err)
    /\ UNCHANGED fmtVars
    /\ UNCHANGED <<connsCreated, initRuns, docs, sketchTrackedFilesCount, sketchMapper,
                   buildPath, timerVars, lastRebuild, buildSketchSymbols, symbolReply,
                   diagVars>>

\* The error of didChange(): an untracked document, or a change whose range
\* does not map.
didChangeError(d, uri) ==
    IF ~d[uri].Tracked THEN unknownURI(uri) ELSE InvalidChangeRange \o " " \o uri

\* didChange with the outcome of its Notify: the case returns what Notify
\* gave, and the common end of the handler is not reached.
IdeDidChangeNotify(err) ==
    /\ Running
    /\ ideMsg.method = "textDocument/didChange"
    /\ LET r == didChange(docs, sketchMapper, buildSketchSymbols, ideMsg.uri,
                          ideMsg.changes, docs[ideMsg.uri].Version + 1)
       IN  /\ docs' = r.docs
           /\ sketchMapper' = r.mapper
           /\ ScheduleIf(r.schedule)
           /\ IF r.err
              THEN clangdIn' = clangdIn /\ Return(didChangeError(docs, ideMsg.uri))
              ELSE /\ clangdIn' = Append(clangdIn, r.res)
                   /\ Return(IF err = NoError THEN "forwarded" ELSE err)
    /\ pc' = [pc EXCEPT !["ide"] = "idle"]
    /\ UNCHANGED fmtVars
    /\ UNCHANGED <<ClangdConn, connsCreated, initRuns, sketchTrackedFilesCount,
                   buildPath, lastRebuild, symVars, diagVars>>

\* The IDE's messages: every unsupported method, every position method on a
\* mapped and an unmapped line of a.ino, and the life of a document.
RouteMsgs ==
    {IdeMsg(m, InoA, <<>>) : m \in Unsupported}
    \cup {PositionMsg(m, InoA, Position(l, 3)) : m \in PositionMethods, l \in {1, 2}}
    \cup {PositionMsg("textDocument/hover", CppX, Position(1, 3))}
    \cup {IdeMsg(m, u, <<>>) :
            m \in {"textDocument/didOpen", "textDocument/didClose"}, u \in {InoA, CppX}}
    \cup {IdeMsg("textDocument/didChange", u, <<PlainChange>>) : u \in {InoA, CppX}}

\* The sketch has two tabs, a.ino with two lines and b.ino with one.
RouteInit ==
    /\ DocInit
    /\ buildPath = "build1"
    /\ sketchMapper = CreateInoMapper(TimerUnit, 1)

RouteRecv(msg) ==
    /\ ideCount < 1 + MaxRouteMsgs
    /\ IdeRecv(msg)

RouteNext ==
    \/ \E p \in Procs : LockW(p)
    \/ \E p \in Procs : LockSem(p)
    \/ \E p \in Procs : RLockSem(p)
    \/ \E msg \in RouteMsgs : RouteRecv(msg)
    \/ IdeUnsupported
    \/ IdeDidOpen
    \/ IdeDidClose
    \/ \E err \in CallErrors \cup {NoError} : IdeDidChangeNotify(err)
    \/ \E err \in CallErrors \cup {NoError} : IdePosition(err)
    \/ \E t \in SymTasks : SymRefresh(t, SketchSymbols)

RouteSpec == RouteInit /\ [][RouteNext]_vars

\* ----------------------------- unsupported methods around the start
\* The IDE sends `initialize` and the methods the handler answers by itself,
\* in any order. These handlers hold the read lock: one that waits for clangd
\* never gets to the test that follows the wait, it stops the process or
\* parks with the initialisation task.
StartMsgs ==
    {IdeMsg("initialize", Nil, <<>>)} \cup {IdeMsg(m, InoA, <<>>) : m \in Unsupported}

StartNext ==
    \/ \E p \in Procs : LockW(p)
    \/ \E p \in Procs : LockSem(p)
    \/ \E p \in Procs : RLockSem(p)
    \/ \E msg \in StartMsgs : IdeRecv(msg)
    \/ IdeWait
    \/ IdeInitialize
    \/ IdeInitializeReturn
    \/ IdeUnsupported
    \/ \E t \in InitTasks, o \in InitOutcomes, bp \in BuildPaths, gen \in GenUnits :
          InitRun(t, o, bp, gen)

StartSpec == Init /\ [][StartNext]_vars

\* ------------------------------------ requests that clangd answers
MaxAnswerMsgs == 3     \* IDE messages of a run in which clangd answers

\* Ranges of the synthetic unit of RouteInit: in a.ino, in b.ino, on the
\* generated prototype, from a.ino into b.ino, and the whole of a.ino up to
\* the line break that ends it.
RangeA == LSPRange(2, 1, 2, 4)
RangeB == LSPRange(3, 0, 3, 2)
RangeProto == LSPRange(0, 0, 0, 5)
RangeAcross == LSPRange(2, 1, 3, 2)
RangeAdjusted == LSPRange(1, 0, 3, 0)

HoverReplies == {NoResult, Hover("", RangeA), Hover("doc", RangeA)}

CompletionReplies ==
    {NoResult,
     CompletionList(<<CompletionItem(<<"f">>, TextEdit(RangeA, "f")),
                      CompletionItem(<<"_", "g">>, TextEdit(RangeA, "_g")),
                      CompletionItem(<<"h">>, NoTextEdit)>>)}

\* Lists of places: in the sketch, in a file under the build folder, in a
\* header of the core.
RangeLists ==
    {<<>>, <<RangeA>>, <<RangeA, RangeB>>, <<RangeA, RangeAcross>>,
     <<RangeAdjusted, RangeA>>, <<RangeProto>>}
LocationReplies ==
    {Locations([i \in 1..Len(l) |-> Location(CppURI, l[i])]) : l \in RangeLists}
    \cup {Locations(<<Location(HeaderURI, RangeA), Location(BuildCppX, RangeB),
                      Location(CppURI, RangeB)>>)}
SymbolInformationReplies ==
    {SymbolInformations([i \in 1..Len(l) |->
                            SymbolInformation("f", Location(CppURI, l[i]))]) :
        l \in RangeLists}
HighlightReplies ==
    {DocumentHighlights([i \in 1..Len(l) |-> DocumentHighlight(1, l[i])]) :
        l \in RangeLists}

\* The symbols of the unit: a generated prototype, a function of a.ino with
\* a child of its own, a child clangd places in b.ino and a child whose name
\* is in b.ino, a function of b.ino, and a symbol with its name in another
\* file than its body.
SymbolProto == SymbolNode("setup", RangeProto, RangeProto, <<>>)
SymbolInA ==
    SymbolNode("setup", LSPRange(1, 0, 2, 1), LSPRange(1, 5, 1, 10),
               <<SymbolNode("x", RangeA, RangeA, <<>>),
                 SymbolNode("y", RangeB, RangeB, <<>>),
                 SymbolNode("z", RangeA, RangeB, <<>>)>>)
SymbolInB == SymbolNode("loop", RangeB, RangeB, <<>>)
SymbolSplit == SymbolNode("w", RangeA, RangeB, <<>>)
DocumentSymbolReplies ==
    {NoResult,
     DocumentSymbolArray(<<SymbolProto, SymbolInA, SymbolSplit, SymbolInB>>),
     DocumentSymbolArray(<<SymbolInB, SymbolInA>>)}

\* clangd's results for a method.
Replies(method) ==
    CASE method = "textDocument/hover" -> HoverReplies
      [] method = "textDocument/completion" -> CompletionReplies
      [] method \in {"textDocument/definition", "textDocument/typeDefinition",
                     "textDocument/implementation"} -> LocationReplies
      [] method = "textDocument/documentHighlight" -> HighlightReplies
      [] method = "textDocument/documentSymbol" -> DocumentSymbolReplies
      [] method = "workspace/symbol" -> SymbolInformationReplies
      [] OTHER -> {NoResult}

\* The methods whose parameters name a document only, and those that name
\* none.
DocumentMethods == {"textDocument/documentSymbol"}
PlainMethods == {"workspace/symbol"}

\* What the switch of HandleMessageFromIDE makes of a request: its inoURI
\* and cppURI, the request for clangd, or an error.
Translated(mapper, msg) ==
    IF msg.method \in PositionMethods
    THEN LET r == ino2cppTextDocumentPositionParams(mapper, msg.uri, msg.position)
         IN  [inoURI |-> msg.uri,
              cppURI |-> IF msg.method \in {"textDocument/completion",
                                            "textDocument/hover"} \/ r.err
                         THEN Nil ELSE r.res.uri,
              req |-> Msg(msg.method, r.res.uri, 0, Nil,
                          <<r.res.position.Line, r.res.position.Character>>),
              err |-> IF r.err THEN unknownURI(msg.uri) ELSE NoError]
    ELSE IF msg.method \in DocumentMethods
    THEN [inoURI |-> msg.uri, cppURI |-> Nil,
          req |-> Msg(msg.method, ino2cppDocumentURI(msg.uri), 0, Nil, <<>>),
          err |-> NoError]
    ELSE [inoURI |-> Nil, cppURI |-> Nil,
          req |-> Msg(msg.method, Nil, 0, Nil, <<>>), err |-> NoError]

\* The handler returns a result: its deferred RUnlock runs. ideResult keeps
\* clangd's result next to the one the IDE is given.
ReturnResult(reply, result) ==
    LET u == DeferredUnlock(ideMsg.method, dataMux)
    IN  /\ dataMux' = u.mux
        /\ crashed' = u.throw
        /\ ideResult' = [method |-> ideMsg.method, uri |-> ideMsg.uri,
                         outcome |-> "result", reply |-> reply, result |-> result]
        /\ UNCHANGED <<ideMsg, ideWaited, ideCount>>

\* A request that clangd answers without error: the parameters are
\* translated, the request sent, the symbol flags served, and the result
\* goes through transformClangdResult unless it is nil.
IdeAnswered(reply) ==
    /\ Running
    /\ ideMsg.method \in PositionMethods \cup DocumentMethods \cup PlainMethods
    /\ reply \in Replies(ideMsg.method)
    /\ LET t == Translated(sketchMapper, ideMsg)
       IN  IF t.err # NoError
           THEN TranslationFailed(t.err)
           ELSE /\ clangdIn' = Append(clangdIn, t.req)
                /\ ReturnResult(reply,
                       IF reply = NoResult THEN NoResult
                       ELSE transformResult(sketchMapper, docs, t.inoURI, t.cppURI,
                                            reply))
                /\ EndHandler(TRUE, buildSketchSymbolsLoad)
                /\ ClangdConn' = ClangdConn
    /\ UNCHANGED fmtVars
    /\ UNCHANGED <<connsCreated, initRuns, docs, sketchTrackedFilesCount, sketchMapper,
                   buildPath, timerVars, lastRebuild, buildSketchSymbols, symbolReply,
                   diagVars>>

\* The IDE opens the tabs of the sketch and asks about a.ino.
AnswerMsgs ==
    {IdeMsg("textDocument/didOpen", u, <<>>) : u \in {InoA, InoB}}
    \cup {PositionMsg(m, InoA, Position(1, 3)) :
            m \in {"textDocument/hover", "textDocument/completion",
                   "textDocument/definition", "textDocument/typeDefinition",
                   "textDocument/implementation", "textDocument/documentHighlight"}}
    \cup {PositionMsg("textDocument/hover", InoA, Position(2, 0))}
    \cup {IdeMsg("textDocument/documentSymbol", u, <<>>) : u \in {InoA, CppX}}
    \cup {IdeMsg("workspace/symbol", Nil, <<>>)}

AnswerRecv(msg) ==
    /\ ideCount < 1 + MaxAnswerMsgs
    /\ IdeRecv(msg)

AnswerNext ==
    \/ \E p \in Procs : LockW(p)
    \/ \E p \in Procs : LockSem(p)
    \/ \E p \in Procs : RLockSem(p)
    \/ \E msg \in AnswerMsgs : AnswerRecv(msg)
    \/ IdeDidOpen
    \/ \E reply \in Replies(ideMsg.method) : IdeAnswered(reply)
    \/ \E t \in SymTasks : SymRefresh(t, SketchSymbols)

AnswerSpec == RouteInit /\ [][AnswerNext]_vars

\* -------------------------------------- clangd asks to apply an edit
MaxEditMsgs == 2       \* IDE messages of a run in which clangd asks for edits

\* Edits of the synthetic unit: in a.ino, in b.ino, from a.ino into b.ino,
\* the whole of a.ino, on the generated prototype; and an edit of another
\* file.
EditA == TextEdit(RangeA, "1")
EditB == TextEdit(RangeB, "2")
EditAcross == TextEdit(RangeAcross, "3")
EditAdjusted == TextEdit(RangeAdjusted, "4")
EditProto == TextEdit(RangeProto, "5")
EditOther == TextEdit(LSPRange(7, 0, 7, 3), "6")

\* The workspace edits clangd asks the IDE to apply: clangd names the files
\* it was given or has read, the synthetic unit, a file under the build
\* folder and a header, never a .ino document.
ApplyEdits ==
    {WorkspaceEdit((CppURI :> <<EditA, EditB, EditAcross, EditAdjusted, EditProto>>)
                   @@ (BuildCppX :> <<EditOther>>)),
     WorkspaceEdit((CppURI :> <<EditB, EditA>>) @@ (HeaderURI :> <<EditOther, EditA>>)),
     WorkspaceEdit(CppURI :> <<EditAcross>>),
     WorkspaceEdit(HeaderURI :> <<EditOther>>)}

\* The locals of the handler of a workspace/applyEdit request.
ApplyEditReq(edit) == [NoReq EXCEPT !.diags = <<edit>>]

\* What the IDE receives: the request with the edit as the handler made it,
\* next to the edit clangd sent.
ApplyEditToIDE(p, edit) ==
    [method |-> "workspace/applyEdit", edit |-> edit, from |-> p.diags[1]]

\* The handlers of clangd's messages started so far.
StartedClangd == {p \in ClangdTasks : pc[p] # "none"}

\* clangd's workspace/applyEdit arrives and FromClangd, on a goroutine of its
\* own, asks for the read lock. A request does not count as a notification.
ClangdRecvEdit(edit) ==
    /\ ~crashed
    /\ ClangdConn # NoConn
    /\ OpenAtClangd(CppURI)
    /\ Cardinality(StartedClangd) < MaxClangdMsgs
    /\ LET p == ClangdName(Cardinality(StartedClangd) + 1)
       IN  /\ dataMux' = RLockAdd(dataMux)
           /\ pc' = [pc EXCEPT ![p] =
                        IF dataMux'.readerCount < 0 THEN "rlockSem" ELSE "locked"]
           /\ clangdReq' = [clangdReq EXCEPT ![p] = ApplyEditReq(edit)]
    /\ UNCHANGED fmtVars
    /\ UNCHANGED <<crashed, ideVars, ClangdConn, connsCreated, initRuns, clangdIn, docs,
                   sketchTrackedFilesCount, sketchMapper, buildPath, timerVars,
                   lastRebuild, symVars, inoDocsWithDiagnostics,
                   clangdNotificationCount, ideOut>>

\* FromClangd under the read lock, case *lsp.ApplyWorkspaceEditParams: the
\* edit goes through cpp2inoWorkspaceEdit and the request to the IDE; the
\* handler returns and its deferred RUnlock runs.
ClangdApplyEdit(p) ==
    /\ ~crashed
    /\ p \in ClangdTasks
    /\ pc[p] = "locked"
    /\ ideOut' = Append(ideOut,
                    ApplyEditToIDE(clangdReq[p],
                        cpp2inoWorkspaceEdit(sketchMapper, docs, clangdReq[p].diags[1])))
    /\ ClangdReturn(p)
    /\ UNCHANGED fmtVars
    /\ UNCHANGED <<ideVars, ClangdConn, connsCreated, initRuns, clangdIn, docs,
                   sketchTrackedFilesCount, sketchMapper, buildPath, timerVars,
                   lastRebuild, symVars, inoDocsWithDiagnostics,
                   clangdNotificationCount, clangdReq>>

\* The IDE opens the tabs of the sketch while clangd asks for edits.
EditMsgs == {IdeMsg("textDocument/didOpen", u, <<>>) : u \in {InoA, InoB}}

EditRecv(msg) ==
    /\ ideCount < 1 + MaxEditMsgs
    /\ IdeRecv(msg)

EditNext ==
    \/ \E p \in Procs : LockW(p)
    \/ \E p \in Procs : LockSem(p)
    \/ \E p \in Procs : RLockSem(p)
    \/ \E msg \in EditMsgs : EditRecv(msg)
    \/ IdeDidOpen
    \/ \E edit \in ApplyEdits : ClangdRecvEdit(edit)
    \/ \E p \in ClangdTasks : ClangdApplyEdit(p)
    \/ \E t \in SymTasks : SymRefresh(t, SketchSymbols)

EditSpec == RouteInit /\ [][EditNext]_vars

\* ------------------------------------------ edits of the source map
MaxMapMsgs == 3        \* IDE messages of a run of edits

\* The IDE opens the tabs of the sketch and edits a.ino, every list of
\* content changes there is.
MapMsgs ==
    {IdeMsg("textDocument/didOpen", u, <<>>) : u \in {InoA, InoB}}
    \cup {IdeMsg("textDocument/didChange", InoA, cs) : cs \in ChangeSeqs}

MapRecv(msg) ==
    /\ ideCount < 1 + MaxMapMsgs
    /\ IdeRecv(msg)

MapNext ==
    \/ \E p \in Procs : LockW(p)
    \/ \E msg \in MapMsgs : MapRecv(msg)
    \/ IdeDidOpen
    \/ IdeDidChange
    \/ \E t \in SymTasks : SymRefresh(t, SketchSymbols)

MapSpec == RouteInit /\ [][MapNext]_vars

\* ------------------------------------- edits that fail half way
MaxAtomMsgs == 3       \* IDE messages of a run of edits that may fail

\* An edit past the last line of a.ino.
PastChange == [Range |-> [Start |-> 2, End |-> 2], Text |-> <<"y">>]

\* The lists of content changes whose last change may fail after the ones
\* before it went through.
AtomSeqs ==
    { <<PlainChange>>, <<PastChange>>, <<PlainChange, PlainChange>>,
      <<PlainChange, PastChange>>, <<DirtyChange, PastChange>> }

AtomMsgs ==
    {IdeMsg("textDocument/didOpen", InoA, <<>>)}
    \cup {IdeMsg("textDocument/didChange", InoA, cs) : cs \in AtomSeqs}

AtomRecv(msg) ==
    /\ ideCount < 1 + MaxAtomMsgs
    /\ IdeRecv(msg)

AtomNext ==
    \/ \E p \in Procs : LockW(p)
    \/ \E msg \in AtomMsgs : AtomRecv(msg)
    \/ IdeDidOpen
    \/ IdeDidChange
    \/ \E t \in SymTasks : SymRefresh(t, SketchSymbols)

AtomSpec == RouteInit /\ [][AtomNext]_vars

\* ------------------------------- the symbol check and the IDE's messages
MaxCheckMsgs == 2      \* IDE messages of a run with symbol checks

\* The IDE opens a.ino, hovers and edits it while clangd reports an
\* undeclared name.
CheckMsgs ==
    {IdeMsg(m, InoA, <<>>) : m \in {"textDocument/didOpen", "textDocument/hover"}}
    \cup {IdeMsg("textDocument/didChange", InoA, <<PlainChange>>)}

CheckRecv(msg) ==
    /\ ideCount < 1 + MaxCheckMsgs
    /\ IdeRecv(msg)

CheckNext ==
    \/ \E p \in Procs : LockW(p)
    \/ \E p \in Procs : LockSem(p)
    \/ \E p \in Procs : RLockSem(p)
    \/ \E msg \in CheckMsgs : CheckRecv(msg)
    \/ IdeDidOpen
    \/ IdeHover
    \/ IdeDidChange
    \/ \E t \in SymTasks : SymRun(t)
    \/ \E msg \in SymClangdMsgs : ClangdRecv(msg)
    \/ \E p \in ClangdTasks : FromClangd(p)

CheckSpec == RouteInit /\ [][CheckNext]_vars

\* ------------------------------------ the IDE's reply to clangd's request
MaxReplyMsgs == 2      \* IDE messages of a run in which the IDE has to reply

\* FromClangd under the read lock, case *lsp.ApplyWorkspaceEditParams, up to
\* lsp.SendRequest on StdioConn: the request is on its way to the IDE and
\* the handler, still holding the read lock, waits for the reply.
ClangdAskEdit(p) ==
    /\ ~crashed
    /\ p \in ClangdTasks
    /\ pc[p] = "locked"
    /\ ideOut' = Append(ideOut,
                    ApplyEditToIDE(clangdReq[p],
                        cpp2inoWorkspaceEdit(sketchMapper, docs, clangdReq[p].diags[1])))
    /\ pc' = [pc EXCEPT ![p] = "awaiting"]
    /\ UNCHANGED fmtVars
    /\ UNCHANGED <<dataMux, crashed, ideVars, ClangdConn, connsCreated, initRuns,
                   clangdIn, docs, sketchTrackedFilesCount, sketchMapper, buildPath,
                   timerVars, lastRebuild, symVars, inoDocsWithDiagnostics,
                   clangdNotificationCount, clangdReq>>

\* The reader of StdioConn reads the IDE's reply: SendRequest returns, and
\* so does FromClangd, whose deferred RUnlock runs. The reader runs
\* HandleMessageFromIDE itself (HandlerWithError, no AsyncHandler), so it
\* reads nothing while a handler of an IDE message has not returned.
IdeReadReply(p) ==
    /\ ~crashed
    /\ p \in ClangdTasks
    /\ pc[p] = "awaiting"
    /\ pc["ide"] = "idle"
    /\ ClangdReturn(p)
    /\ UNCHANGED fmtVars
    /\ UNCHANGED <<ideVars, benchVars>>

ReplyRecv(msg) ==
    /\ ideCount < 1 + MaxReplyMsgs
    /\ IdeRecv(msg)

ReplyNext ==
    \/ \E p \in Procs : LockW(p)
    \/ \E p \in Procs : LockSem(p)
    \/ \E p \in Procs : RLockSem(p)
    \/ \E msg \in EditMsgs : ReplyRecv(msg)
    \/ IdeDidOpen
    \/ \E edit \in ApplyEdits : ClangdRecvEdit(edit)
    \/ \E p \in ClangdTasks : ClangdAskEdit(p)
    \/ \E p \in ClangdTasks : IdeReadReply(p)
    \/ \E t \in SymTasks : SymRefresh(t, SketchSymbols)

ReplySpec == RouteInit /\ [][ReplyNext]_vars

\* ------------------------------------------------- formatting requests
\* The sketch and the user may have a configuration each, and the build
\* folder may hold one already.
FormatInit ==
    /\ NewInoHandler
    /\ disk \in {fs \in [FsPaths -> {Absent, SketchStyle, UserStyle, OtherStyle}] :
                    /\ fs[SketchConf] \in {Absent, SketchStyle}
                    /\ fs[UserConf] \in {Absent, UserStyle}
                    /\ fs[BuildConf] \in {Absent, OtherStyle}
                    /\ fs[Join(BuildSketchCpp, ConfName)] = Absent}
    /\ lsConfig \in {[FormatterConf |-> c] : c \in {Nil, UserConf}}
    /\ fmtReq = [r \in FmtReqs |-> NoFmtReq]

\* A formatting request arrives, on a worker of its own, and the
\* configuration is written; when the write fails the request fails and
\* does not go on to clangd.
FormatCreate(r, cppuri, readOk, writeOk) ==
    /\ fmtReq[r].pc = "none"
    /\ r > 1 => fmtReq[r - 1].pc # "none"
    /\ LET c == createClangdFormatterConfig(disk, lsConfig.FormatterConf, cppuri,
                                            readOk, writeOk)
       IN  /\ disk' = c.files
           /\ fmtReq' = [fmtReq EXCEPT ![r] =
                            [pc |-> IF c.err THEN "failed" ELSE "created",
                             cppuri |-> cppuri, targetFile |-> c.targetFile,
                             found |-> disk[c.targetFile], readErr |-> c.readErr,
                             err |-> c.err, reply |-> Nil]]
    /\ UNCHANGED <<lsConfig, handlerVars>>

\* The request goes on to clangd.
FormatForward(r) ==
    /\ fmtReq[r].pc = "created"
    /\ fmtReq' = [fmtReq EXCEPT ![r].pc = "inflight"]
    /\ UNCHANGED <<disk, lsConfig, handlerVars>>

\* clangd answers, with the edits or with an error.
FormatReplies == {"edits", "error"}

FormatReply(r, reply) ==
    /\ fmtReq[r].pc = "inflight"
    /\ fmtReq' = [fmtReq EXCEPT ![r].pc = "replied", ![r].reply = reply]
    /\ UNCHANGED <<disk, lsConfig, handlerVars>>

\* The response is delivered and the cleanup runs.
FormatCleanup(r) ==
    /\ fmtReq[r].pc = "replied"
    /\ disk' = cleanup(disk, fmtReq[r].targetFile)
    /\ fmtReq' = [fmtReq EXCEPT ![r].pc = "done"]
    /\ UNCHANGED <<lsConfig, handlerVars>>

FormatNext ==
    \/ \E r \in FmtReqs, cppuri \in FormatTargets, readOk \in BOOLEAN, writeOk \in BOOLEAN :
          FormatCreate(r, cppuri, readOk, writeOk)
    \/ \E r \in FmtReqs : FormatForward(r)
    \/ \E r \in FmtReqs, reply \in FormatReplies : FormatReply(r, reply)
    \/ \E r \in FmtReqs : FormatCleanup(r)

FormatSpec == FormatInit /\ [][FormatNext]_vars

\* ================================================================ claims
\* The outcomes of initializeWorkbench that are failures reported by error.
FailedOutcomes == {"preprocessor", "readfile", "initialize", "initialized"}

\* The IDE handler has finished the message ideMsg.
IdeDone == pc["ide"] = "idle" /\ ideMsg.method # Nil

\* C1: when every initialisation task so far ended in failure, a request that
\* waited on the clangd-ready condition fails with clangd-unavailable (and so
\* is not forwarded to clangd).
C1_WaitersFailAfterFailedInit ==
    (/\ IdeDone
     /\ ideWaited
     /\ initRuns # <<>>
     /\ \A i \in 1..Len(initRuns) : initRuns[i] \in FailedOutcomes)
    => ideResult.outcome = "unavailable"

\* C2: once `initialize` has been handled, every IDE message other than
\* initialize/initialized that is being handled is eventually answered
\* (forwarded, or failed with clangd-unavailable or another error); it does
\* not stay blocked on the clangd-ready condition. The runs where the process
\* died or startClangd panicked are left out.
C2_EveryMessageReturns ==
    (pc["ide"] # "idle" /\ NeedsClangd(ideMsg.method) /\ Spawned # {})
        ~> (pc["ide"] = "idle" \/ crashed
            \/ \E i \in 1..Len(initRuns) : initRuns[i] = "panic")

\* C3: a read-locked request handled after `initialize` that waited on the
\* clangd-ready condition never unlocked a write lock it did not hold (the
\* runtime did not stop the process, and a task that took rw.w still has it),
\* and when it runs again it holds the read lock: it is counted as a reader
\* and no writer is in.
C3_WaitKeepsLockMode ==
    (ideWaited /\ ~WriteLocked(ideMsg.method) /\ Spawned # {})
    => /\ ~crashed
       /\ \A p \in Procs \ {"ide"} : pc[p] \in {"lockSem", "locked"} => dataMux.w
       /\ pc["ide"] = "locked" => (dataMux.readerCount >= 1 /\ ~dataMux.w)

\* C4: `initialize` never waits on the clangd-ready condition, and until its
\* handler has returned the task it spawned is still waiting for the write
\* lock: it has not run the preprocessor nor created a clangd connection.
C4_InitializeReturnsBeforeTask ==
    /\ ideMsg.method = "initialize" => ~ideWaited
    /\ pc["ide"] = "returning" =>
          /\ pc[TaskName(Cardinality(Spawned))] = "lockW"
          /\ Len(initRuns) < Cardinality(Spawned)

\* The reply to the first `initialize` is out while its task is still queued
\* and no clangd connection exists.
C4_Witness ==
    /\ IdeDone
    /\ ideResult.method = "initialize"
    /\ ideResult.outcome = "capabilities"
    /\ pc[TaskName(1)] = "lockW"
    /\ ClangdConn = NoConn

\* The handler of `method` returns in this step.
HandlerReturns(method) ==
    pc["ide"] = "locked" /\ ideMsg.method = method /\ pc'["ide"] = "idle"

\* The messages clangd received about the synthetic unit with one of `methods`.
SyntheticMsgs(methods) ==
    SelectSeq(clangdIn, LAMBDA m : m.uri = CppURI /\ m.method \in methods)

SyntheticDidOpens == SyntheticMsgs({"textDocument/didOpen"})

\* C5: clangd receives a didOpen for the synthetic unit in exactly the steps
\* where a .ino didOpen takes the tracked count from 0 to 1; it is the last
\* message sent, with languageId cpp and the source map's text and version.
\* Every other .ino open sends nothing to clangd.
C5_FirstInoOpenOnly ==
    [][LET first == /\ HandlerReturns("textDocument/didOpen")
                    /\ Ext(ideMsg.uri) = ".ino"
                    /\ sketchTrackedFilesCount = 0
       IN  /\ first =>
                /\ sketchTrackedFilesCount' = 1
                /\ clangdIn' = Append(clangdIn,
                        Msg("textDocument/didOpen", CppURI, sketchMapper.Version,
                            "cpp", sketchMapper.Text))
           /\ ~first => Len(SyntheticDidOpens') = Len(SyntheticDidOpens)
           /\ (HandlerReturns("textDocument/didOpen") /\ Ext(ideMsg.uri) = ".ino"
                    /\ ~first) => clangdIn' = clangdIn]_vars

\* Two .ino documents are open and clangd was told once.
C5_Witness ==
    /\ IdeDone
    /\ ideMsg.method = "textDocument/didOpen"
    /\ docs[InoA].Tracked /\ docs[InoB].Tracked
    /\ sketchTrackedFilesCount = 2
    /\ Len(SyntheticDidOpens) = 1

\* The .ino documents in the tracked-document map.
TrackedInoDocs == {u \in URIs : Ext(u) = ".ino" /\ docs[u].Tracked}

\* C6: sketchTrackedFilesCount is the number of .ino documents in docs.
C6_CountIsTrackedInoDocs == sketchTrackedFilesCount = Cardinality(TrackedInoDocs)

\* What clangd was told about the synthetic unit being open.
SyntheticOpenClose == SyntheticMsgs({"textDocument/didOpen", "textDocument/didClose"})

\* C7: the count is never negative; the didOpen and didClose clangd received
\* for the synthetic unit alternate, starting with didOpen; and when the count
\* is 0 after a didOpen was sent, the last of them is a didClose (so exactly
\* one didClose follows the last didOpen).
C7_OpenCloseAlternate ==
    /\ sketchTrackedFilesCount >= 0
    /\ \A i \in 1..Len(SyntheticOpenClose) :
          SyntheticOpenClose[i].method =
              IF i % 2 = 1 THEN "textDocument/didOpen" ELSE "textDocument/didClose"
    /\ (sketchTrackedFilesCount = 0 /\ SyntheticOpenClose # <<>>)
          => SyntheticOpenClose[Len(SyntheticOpenClose)].method = "textDocument/didClose"

\* The last .ino document was closed and clangd was told so, once.
C7_Witness ==
    /\ IdeDone
    /\ ideMsg.method = "textDocument/didClose"
    /\ ideResult.outcome = "forwarded"
    /\ sketchTrackedFilesCount = 0
    /\ Len(SyntheticOpenClose) = 2

\* C8: every .ino didChange that is forwarded raises the synthetic unit's
\* version by exactly 1 and carries the raised version, whatever the number
\* of its content changes.
C8_OneVersionPerDidChange ==
    [][(/\ HandlerReturns("textDocument/didChange")
        /\ Ext(ideMsg.uri) = ".ino"
        /\ ideResult'.outcome = "forwarded")
       => /\ sketchMapper'.Version = sketchMapper.Version + 1
          /\ clangdIn'[Len(clangdIn')].version = sketchMapper.Version + 1]_vars

\* The changes of the synthetic unit clangd received.
SyntheticDidChanges == SyntheticMsgs({"textDocument/didChange"})

\* C9: the source map's version never decreases, and the versions of the
\* didChange notifications clangd received for the synthetic unit strictly
\* increase.
C9_VersionsIncrease ==
    /\ [][sketchMapper'.Version >= sketchMapper.Version]_vars
    /\ [](\A i, j \in 1..Len(SyntheticDidChanges) :
            i < j => SyntheticDidChanges[i].version < SyntheticDidChanges[j].version)

\* C10: a successful rebuild sends one message, a didChange of the synthetic
\* unit with a single range-less change holding the regenerated unit, at the
\* version before the rebuild + 1, and keeps the clangd connection; when the
\* preprocessor fails the source map, the build path and what clangd received
\* are as before.
C10_RebuildResyncs ==
    [][(pc["rebuild"] = "locked" /\ pc'["rebuild"] = "idle") =>
          /\ lastRebuild' = "ok" =>
                /\ sketchMapper'.Version = sketchMapper.Version + 1
                /\ sketchMapper'.Text \in GenUnits
                /\ clangdIn' = Append(clangdIn,
                        Msg("textDocument/didChange", CppURI, sketchMapper.Version + 1,
                            Nil, <<[Range |-> NoRange, Text |-> sketchMapper'.Text]>>))
                /\ ClangdConn' = ClangdConn
                /\ connsCreated' = connsCreated
          /\ lastRebuild' = "preprocessor" =>
                UNCHANGED <<sketchMapper, buildPath, clangdIn, ClangdConn, connsCreated>>]_vars

\* A rebuild after an edit went well: clangd's last message is the full text
\* at version 3 (1 at the start, 2 after the edit).
C10_Witness ==
    /\ pc["rebuild"] = "idle"
    /\ lastRebuild = "ok"
    /\ clangdIn # <<>>
    /\ clangdIn[Len(clangdIn)] =
          Msg("textDocument/didChange", CppURI, 3, Nil,
              <<[Range |-> NoRange, Text |-> sketchMapper.Text]>>)
    /\ connsCreated = 1

\* The rebuilds that went through: the range-less changes clangd received.
Resyncs ==
    SelectSeq(SyntheticMsgs({"textDocument/didChange"}),
              LAMBDA m : Len(m.body) = 1 /\ m.body[1].Range = NoRange)

\* C11: the rebuild loop starts a rebuild only when a deadline is set and the
\* full delay has passed since scheduleRebuildEnvironment was last called, and
\* it clears the deadline as it starts (so the calls of a burst, each less
\* than the delay after the one before, get one rebuild, after the last of
\* them); a deadline that is set is eventually cleared, and a rebuild
\* eventually runs under the write lock.
C11_RebuildDebounce ==
    /\ [][(pc["rebuild"] = "idle" /\ pc'["rebuild"] # "idle") =>
            /\ rebuildSketchDeadline # NoDeadline
            /\ sinceSchedule >= RebuildDelay
            /\ rebuildSketchDeadline' = NoDeadline]_vars
    /\ (rebuildSketchDeadline # NoDeadline) ~> (rebuildSketchDeadline = NoDeadline)
    /\ (rebuildSketchDeadline # NoDeadline) ~> (pc["rebuild"] = "locked")

\* Two dirty edits were forwarded, then one rebuild ran and no deadline is left.
C11_Witness ==
    /\ Len(SelectSeq(SyntheticMsgs({"textDocument/didChange"}),
                     LAMBDA m : Len(m.body) = 1 /\ m.body[1].Text = <<"#">>)) = 2
    /\ Len(Resyncs) = 1
    /\ clangdIn[Len(clangdIn)] = Resyncs[1]
    /\ lastRebuild = "ok"
    /\ pc["rebuild"] = "idle"
    /\ rebuildSketchDeadline = NoDeadline

\* The source map after the first k of the changes went through it.
RECURSIVE MapperAfter(_, _, _, _)
MapperAfter(mapper, uri, changes, k) ==
    IF k = 0 THEN mapper
    ELSE ApplyTextChange(MapperAfter(mapper, uri, changes, k - 1), uri, changes[k]).mapper

\* The k-th change is looked at: it and the changes before it have a range
\* that maps, each through the source map as the changes before it left it.
Processed(mapper, uri, changes, k) ==
    \A i \in 1..k :
        InoToCppLSPRangeOk(MapperAfter(mapper, uri, changes, i - 1), uri,
                           changes[i].Range).ok

\* The k-th change is dirty: its translated range overlaps a cached function
\* symbol, or the source mapper reports it dirty.
DirtyAt(mapper, symbols, uri, changes, k) ==
    LET before == MapperAfter(mapper, uri, changes, k - 1)
        cppRange == InoToCppLSPRangeOk(before, uri, changes[k].Range).range
    IN  \/ \E i \in 1..Len(symbols) : Overlaps(symbols[i].Range, cppRange)
        \/ ApplyTextChange(before, uri, changes[k]).dirty

\* C12: a didChange of a tracked .ino document calls
\* scheduleRebuildEnvironment (the deadline is a full delay ahead) if and only
\* if one of the content changes it looks at is dirty; with no dirty change
\* rebuildSketchDeadline is as before.
C12_DirtyChangeSchedules ==
    [][(/\ HandlerReturns("textDocument/didChange")
        /\ Ext(ideMsg.uri) = ".ino"
        /\ docs[ideMsg.uri].Tracked)
       => LET anyDirty ==
                  \E k \in 1..Len(ideMsg.changes) :
                      /\ Processed(sketchMapper, ideMsg.uri, ideMsg.changes, k)
                      /\ DirtyAt(sketchMapper, buildSketchSymbols, ideMsg.uri,
                                 ideMsg.changes, k)
          IN  IF anyDirty
              THEN rebuildSketchDeadline' = RebuildDelay /\ sinceSchedule' = 0
              ELSE UNCHANGED <<rebuildSketchDeadline, sinceSchedule>>]_vars

\* An edit that touches no prototype line but the line of a cached function
\* has scheduled a rebuild, the only dirty edit so far.
C12_Witness ==
    /\ IdeDone
    /\ ideMsg = IdeMsg("textDocument/didChange", InoA, <<PlainChange>>)
    /\ ideResult.outcome = "forwarded"
    /\ buildSketchSymbols = <<SymF>>
    /\ Len(SyntheticDidChanges) = 1
    /\ rebuildSketchDeadline = RebuildDelay
    /\ sinceSchedule = 0

\* The changes clangd is to receive for the changes of a .ino didChange: the
\* k-th has the text of the k-th and its range translated through the source
\* map as the changes before it left it.
TranslatedChanges(mapper, uri, changes) ==
    [k \in 1..Len(changes) |->
        [Range |-> InoToCppLSPRangeOk(MapperAfter(mapper, uri, changes, k - 1), uri,
                                      changes[k].Range).range,
         Text |-> changes[k].Text]]

\* The step sends clangd one didChange of the synthetic unit with the
\* translated changes, and nothing else.
SendsTranslated ==
    /\ Len(clangdIn') = Len(clangdIn) + 1
    /\ SubSeq(clangdIn', 1, Len(clangdIn)) = clangdIn
    /\ LET m == clangdIn'[Len(clangdIn')]
       IN  /\ m.method = "textDocument/didChange"
           /\ m.uri = CppURI
           /\ m.body = TranslatedChanges(sketchMapper, ideMsg.uri, ideMsg.changes)

\* C13: a didChange of a tracked .ino document whose N changes all have a
\* range that maps sends clangd exactly one didChange of the synthetic unit,
\* with N changes in the same order, the k-th with the text of the k-th
\* source change and its range translated through the source map as changes
\* 1..k-1 left it; when the document is not tracked or a range does not map,
\* clangd receives nothing.
C13_ChangesTranslatedInOrder ==
    [][(HandlerReturns("textDocument/didChange") /\ Ext(ideMsg.uri) = ".ino")
       => IF /\ docs[ideMsg.uri].Tracked
             /\ Processed(sketchMapper, ideMsg.uri, ideMsg.changes, Len(ideMsg.changes))
          THEN SendsTranslated
          ELSE clangdIn' = clangdIn]_vars

\* C13 as stated: every didChange of a tracked .ino document sends clangd one
\* didChange with the translated changes.
C13_EveryDidChangeSent ==
    [][(/\ HandlerReturns("textDocument/didChange")
        /\ Ext(ideMsg.uri) = ".ino"
        /\ docs[ideMsg.uri].Tracked)
       => SendsTranslated]_vars

\* A didChange whose second range maps only once the first change has added
\* a line went to clangd, the second range on the added line.
C13_Witness ==
    /\ IdeDone
    /\ ideMsg.method = "textDocument/didChange"
    /\ ideMsg.uri = InoA
    /\ Len(ideMsg.changes) = 2
    /\ ideMsg.changes[2].Range = [Start |-> 2, End |-> 2]
    /\ ideResult.outcome = "forwarded"
    /\ clangdIn[Len(clangdIn)].body =
          <<[Range |-> [Start |-> 1, End |-> 1], Text |-> <<"y", "y">>],
            [Range |-> [Start |-> 3, End |-> 3], Text |-> <<"y">>]>>

\* The handlers of clangd's notifications about the synthetic unit that have
\* returned.
DoneSynthetic == {p \in ClangdTasks : pc[p] = "done" /\ clangdReq[p].uri = CppURI}

\* What the IDE received for the notification handler p handled.
OutOf(p) == SelectSeq(ideOut, LAMBDA m : m.of = clangdReq[p].of)

\* The .ino files the diagnostics of a notification map to.
InoFilesOf(diags) ==
    {CppToInoRangeOk(sketchMapper, diags[i].Range).file : i \in 1..Len(diags)} \ {NotIno}

\* The diagnostics of a notification that map to file f, in clangd's order
\* and in the coordinates of f.
InoDiagsOf(diags, f) ==
    LET mine == SelectSeq(diags, LAMBDA x : CppToInoRangeOk(sketchMapper, x.Range).file = f)
    IN  [i \in 1..Len(mine) |->
            [mine[i] EXCEPT !.Range = CppToInoRangeOk(sketchMapper, mine[i].Range).range]]

\* C16: once a notification of clangd about the synthetic unit is handled,
\* the IDE has received for it exactly one fresh batch per .ino file its
\* diagnostics map to, each with exactly the diagnostics of that file, in
\* clangd's order and in .ino coordinates, whatever the tracked documents.
C16_OneBatchPerInoFile ==
    \A p \in DoneSynthetic :
        LET fresh == SelectSeq(OutOf(p), LAMBDA m : m.diags # <<>>)
            files == InoFilesOf(clangdReq[p].diags)
        IN  /\ Len(fresh) = Cardinality(files)
            /\ {[uri |-> fresh[i].uri, diags |-> fresh[i].diags] : i \in 1..Len(fresh)}
                 = {PublishDiagnosticsParams(f, InoDiagsOf(clangdReq[p].diags, f)) :
                        f \in files}

\* C14: once a notification of clangd about the synthetic unit was handled
\* with no other handler of clangd running, the IDE has received for it a
\* fresh batch for each .ino URI its diagnostics map to, then an empty batch
\* for each URI that was stored and is not among them, and nothing else; and
\* the stored set is the set of those URIs (until a later notification).
C14_FreshThenStale ==
    \A p \in DoneSynthetic :
        (clangdReq[p].alone /\ clangdReq[p].of = clangdNotificationCount) =>
            LET out == OutOf(p)
                new == InoFilesOf(clangdReq[p].diags)
                k == Cardinality(new)
                old == clangdReq[p].prev \ new
            IN  /\ Len(out) = k + Cardinality(old)
                /\ {out[i].uri : i \in 1..k} = new
                /\ \A i \in 1..k : out[i].diags # <<>>
                /\ {out[i].uri : i \in (k + 1)..Len(out)} = old
                /\ \A i \in (k + 1)..Len(out) : out[i].diags = <<>>
                /\ inoDocsWithDiagnostics = new

\* C15: for every URI, the batches the IDE received are in the order of
\* clangd's notifications: none sent for an earlier notification comes after
\* one sent for a later notification.
C15_BatchesInDeliveryOrder ==
    \A i, j \in 1..Len(ideOut) :
        (i < j /\ ideOut[i].uri = ideOut[j].uri) => ideOut[i].of <= ideOut[j].of

\* The mutable fields of the workbench that dataMux guards.
WorkbenchFields ==
    <<docs, sketchTrackedFilesCount, sketchMapper, buildSketchSymbols,
      buildSketchSymbolsLoad, buildSketchSymbolsCheck, inoDocsWithDiagnostics>>

\* Process p is inside a section it entered with dataMux.Lock(): FromClangd
\* takes RLock, HandleMessageFromIDE takes the lock of the method, the
\* initialisation task, the rebuild and the symbol refresh take Lock.
HoldsWrite(p) ==
    /\ pc[p] = "locked"
    /\ p \notin ClangdTasks
    /\ p = "ide" => WriteLocked(ideMsg.method)

\* C17: every step that changes a mutable field of the workbench is taken
\* while a process holds the write lock; a handler that holds only the read
\* lock changes none of them.
C17_WritesUnderWriteLock ==
    [][WorkbenchFields' # WorkbenchFields => \E p \in Procs : HoldsWrite(p)]_vars

\* Process p is inside a section guarded by dataMux, in either mode: it has
\* the lock and has not reached its Unlock or RUnlock. A process that waits
\* on clangdStarted is outside until it has the lock again.
InSection(p) ==
    /\ ~crashed
    /\ pc[p] \in {"locked", "returning", "fresh", "stale"}

\* Process p is inside a section it entered with dataMux.Lock().
InWriteSection(p) ==
    /\ InSection(p)
    /\ p \notin ClangdTasks
    /\ p = "ide" => WriteLocked(ideMsg.method)

\* C18: while a process is inside a write-locked section (of initialize,
\* didOpen, didChange, didClose, the initialisation task, the rebuild or the
\* symbol refresh), no other process is inside a section guarded by dataMux,
\* write-locked or read-locked, also after a wait on clangdStarted.
C18_WriteSectionsExclusive ==
    \A p, q \in Procs : (p # q /\ InWriteSection(p)) => ~InSection(q)

\* A write-locked handler has waited for clangd, has the lock again and goes on.
C18_Witness ==
    /\ InWriteSection("ide")
    /\ ideWaited
    /\ ClangdConn # NoConn
    /\ \E t \in InitTasks : pc[t] = "done"

\* The symbols of kind function of a reply, in the order of the reply and
\* as clangd gave them.
RECURSIVE FunctionsOf(_)
FunctionsOf(symbols) ==
    IF symbols = <<>> THEN <<>>
    ELSE IF Head(symbols).Kind = SKFunction
    THEN <<Head(symbols)>> \o FunctionsOf(Tail(symbols))
    ELSE FunctionsOf(Tail(symbols))

\* A step in which clangd answers a documentSymbol request.
SymbolsAnswered ==
    /\ Len(clangdIn') = Len(clangdIn) + 1
    /\ clangdIn'[Len(clangdIn')].method = "textDocument/documentSymbol"

\* C19: buildSketchSymbols changes only in a step of refreshCppDocumentSymbols
\* taken by a task that holds the write lock; after a reply that is a
\* DocumentSymbol array it holds the function symbols of the reply, in the
\* reply's order and coordinates, and after a failed request or any other
\* reply it is unchanged.
C19_SymbolsAreReplyFunctions ==
    [][/\ buildSketchSymbols' # buildSketchSymbols =>
            /\ SymbolsAnswered
            /\ \E t \in SymTasks : HoldsWrite(t) /\ pc'[t] # "locked"
            /\ \A p \in Procs \ SymTasks : ~InSection(p)
       /\ SymbolsAnswered =>
            buildSketchSymbols' =
                IF symbolReply'.kind = "symbols"
                THEN FunctionsOf(symbolReply'.symbols)
                ELSE buildSketchSymbols]_vars

\* A refresh has stored the two functions of a reply that also had a variable.
C19_Witness ==
    /\ symbolReply = Reply("symbols", <<SymF, SymV, SymG>>)
    /\ buildSketchSymbols = <<SymF, SymG>>
    /\ ~crashed

\* Two lists of symbols differ in length or in the name at some index.
SymbolsDiffer(a, b) ==
    \/ Len(a) # Len(b)
    \/ \E i \in 1..Len(a) : a[i].Name # b[i].Name

\* This step calls scheduleRebuildEnvironment, or leaves the deadline alone.
Schedules == rebuildSketchDeadline' = RebuildDelay /\ sinceSchedule' = 0

\* C20: a checkCppDocumentSymbols that ends after its comparison has
\* scheduled a rebuild if the list its refresh stored differs, in length or
\* in a name at the same index, from the list the refresh found, and has left
\* the deadline alone if they agree; one that ends because its refresh
\* failed leaves the deadline alone; whatever the other symbol tasks do.
C20_CheckSchedulesIffChanged ==
    [][\A t \in SymTasks :
          (symTask[t].kind = "check" /\ pc'[t] = "none") =>
              /\ pc[t] \in {"compareLen", "compareNames"} =>
                    IF SymbolsDiffer(symTask[t].before, symTask[t].after)
                    THEN Schedules
                    ELSE UNCHANGED timerVars
              /\ pc[t] = "locked" => UNCHANGED timerVars]_vars

\* A handler ended on an error of its call of clangd.
CallFailed == ideResult.outcome \in CallErrors

\* C21: whenever a call or notification to clangd fails with `context
\* deadline exceeded` or an error containing `non-added document` or
\* `non-added file`, the clangd connection is closed and the process ends;
\* after any other error the process keeps running, the error returned.
C21_SevereErrorsExit ==
    CallFailed =>
        IF SevereError(ideResult.outcome)
        THEN crashed /\ ClangdConn = NoConn
        ELSE ~crashed /\ ClangdConn # NoConn

\* C22: a message for textDocument/references, textDocument/rename,
\* textDocument/onTypeFormatting, workspace/didChangeWatchedFiles or
\* workspace/executeCommand is always answered with a null result and no
\* error: the process does not stop at it, and its handler returns null.
C22_UnsupportedAnsweredNull ==
    ideMsg.method \in Unsupported =>
        /\ ~crashed
        /\ pc["ide"] = "idle" => ideResult.outcome = "null"

\* The step in which the handler of a message of this method ends.
HandlerEnds(method) ==
    /\ pc["ide"] = "locked"
    /\ ideMsg.method = method
    /\ pc'["ide"] # "locked"

\* C23: a didChange for a document that is not tracked fails with the
\* untracked-URI error, sends nothing to clangd, schedules no rebuild and
\* leaves the tracked documents, the source map and its version unchanged.
C23_UntrackedChangeFails ==
    [][HandlerEnds("textDocument/didChange") /\ ~docs[ideMsg.uri].Tracked
       => /\ ideResult'.outcome = unknownURI(ideMsg.uri)
          /\ UNCHANGED <<clangdIn, timerVars, docs, sketchMapper>>]_vars

\* A didChange for a.ino, never opened, was refused while clangd had been
\* sent nothing but its start-up.
C23_Witness ==
    /\ ideResult.method = "textDocument/didChange"
    /\ ideResult.outcome = unknownURI(InoA)
    /\ ~docs[InoA].Tracked
    /\ Len(clangdIn) = 2

\* C24: a didClose for a document that is not tracked (never opened, or
\* already closed) is dropped: no message at all is sent to clangd for it,
\* and the tracked documents and sketchTrackedFilesCount are unchanged.
C24_UntrackedCloseDropped ==
    [][HandlerEnds("textDocument/didClose") /\ ~docs[ideMsg.uri].Tracked
       => UNCHANGED <<clangdIn, docs, sketchTrackedFilesCount>>]_vars

\* The step in which the handler of a position request ends, by a return or
\* by handler.exit().
PositionRequestEnds ==
    /\ pc["ide"] = "locked"
    /\ ideMsg.method \in PositionMethods
    /\ pc'["ide"] # "locked" \/ crashed'

\* C25: for a position request on a .ino file the request forwarded to
\* clangd targets the synthetic unit, with the line replaced by the
\* forward-mapped line and the character unchanged; when the line has no
\* mapping the request fails with an error and nothing is forwarded.
C25_PositionForwardMapped ==
    [][PositionRequestEnds /\ Ext(ideMsg.uri) = ".ino"
       => LET l == InoToCppLineOk(sketchMapper, ideMsg.uri, ideMsg.position.Line)
          IN  IF l.ok
              THEN clangdIn' =
                      Append(clangdIn,
                             Msg(ideMsg.method, CppURI, 0, Nil,
                                 <<l.line, ideMsg.position.Character>>))
              ELSE /\ clangdIn' = clangdIn
                   /\ ideResult'.outcome = unknownURI(ideMsg.uri)]_vars

\* A completion at a.ino:1:3 went to clangd at line 2, character 3 of the
\* synthetic unit.
C25_Witness ==
    /\ ideResult.method = "textDocument/completion"
    /\ ideResult.uri = InoA
    /\ ideResult.outcome = "forwarded"
    /\ clangdIn[Len(clangdIn)] = Msg("textDocument/completion", CppURI, 0, Nil, <<2, 3>>)

\* The step in which the handler of a request of one of these methods
\* returns the result clangd gave, translated.
AnsweredStep(methods) ==
    /\ pc["ide"] = "locked"
    /\ ideMsg.method \in methods
    /\ pc'["ide"] # "locked"
    /\ ideResult'.outcome = "result"

\* C26: for a hover or a completion on a .ino file, every range in the
\* response given to the IDE (the hover's range, the range of every item's
\* text edit) is the cpp-to-ino translation of the range clangd returned.
C26_AnswerRangesTranslated ==
    [][AnsweredStep({"textDocument/hover", "textDocument/completion"})
       /\ Ext(ideMsg.uri) = ".ino" /\ ideResult'.result # NoResult
       => LET reply == ideResult'.reply
              result == ideResult'.result
          IN  IF ideMsg.method = "textDocument/hover"
              THEN result.Range = CppToInoRange(sketchMapper, reply.Range).range
              ELSE \A i \in 1..Len(result.Items) :
                      result.Items[i].TextEdit # NoTextEdit
                      => \E j \in 1..Len(reply.Items) :
                            /\ reply.Items[j].InsertText = result.Items[i].InsertText
                            /\ result.Items[i].TextEdit.Range =
                                  CppToInoRange(sketchMapper,
                                                reply.Items[j].TextEdit.Range).range]_vars

\* The filter of cpp2inoDocumentSymbols keeps a symbol for the document F:
\* it does not start on a generated line, and its range and its selection
\* range are both in F.
KeptSymbol(mapper, symbol, F) ==
    /\ ~IsPreprocessedCppLine(mapper, symbol.Range.Start)
    /\ CppToInoRange(mapper, symbol.Range).file =
          CppToInoRange(mapper, symbol.SelectionRange).file
    /\ CppToInoRange(mapper, symbol.Range).file = F

\* The kept symbols in clangd's order, in the coordinates of F, their
\* children filtered likewise.
RECURSIVE FilteredSymbols(_, _, _)
FilteredSymbols(mapper, symbols, F) ==
    LET kept == SelectSeq(symbols, LAMBDA symbol : KeptSymbol(mapper, symbol, F))
    IN  [i \in 1..Len(kept) |->
            [kept[i] EXCEPT
                !.Range = CppToInoRange(mapper, kept[i].Range).range,
                !.SelectionRange = CppToInoRange(mapper, kept[i].SelectionRange).range,
                !.Children = FilteredSymbols(mapper, @, F)]]

\* C27: the response to a documentSymbol request on a .ino file F holds, at
\* every nesting level and in clangd's order, exactly the symbols that do
\* not start on a generated-prototype line and whose range and selection
\* range are both in F, with both ranges in the coordinates of F and the
\* children filtered by the same rule.
C27_DocumentSymbolsFiltered ==
    [][AnsweredStep({"textDocument/documentSymbol"})
       /\ Ext(ideMsg.uri) = ".ino" /\ ideResult'.reply # NoResult
       => ideResult'.result =
             DocumentSymbolArray(
                FilteredSymbols(sketchMapper, ideResult'.reply.Items, ideMsg.uri))]_vars

\* clangd answered documentSymbol on a.ino with a prototype, setup() of
\* a.ino with three children, a symbol split over two files and loop() of
\* b.ino: the IDE got setup() at lines 0..1 of a.ino with the one child that
\* is in a.ino.
C27_Witness ==
    /\ IdeDone
    /\ ideResult.method = "textDocument/documentSymbol"
    /\ ideResult.uri = InoA
    /\ ideResult.outcome = "result"
    /\ ideResult.reply =
          DocumentSymbolArray(<<SymbolProto, SymbolInA, SymbolSplit, SymbolInB>>)
    /\ ideResult.result =
          DocumentSymbolArray(
             <<SymbolNode("setup", LSPRange(0, 0, 1, 1), LSPRange(0, 5, 0, 10),
                          <<SymbolNode("x", LSPRange(1, 1, 1, 4),
                                       LSPRange(1, 1, 1, 4), <<>>)>>)>>)

\* A range of the synthetic unit converts: both its ends are in one file, or
\* its end is at the line break that ends the file of its start, and that
\* file is the generated part or a tracked document.
RangeConverts(mapper, d, range) ==
    LET r == CppToInoRangeOk(mapper, range)
    IN  /\ r.ok \/ r.adjusted
        /\ r.file = NotIno \/ d[r.file].Tracked

\* An edit of the synthetic unit converts when its range does.
EditConverts(mapper, d, edit) == RangeConverts(mapper, d, edit.Range)

\* The edits that convert into the file uri, in their order, translated.
EditsFor(mapper, d, edits, uri) ==
    LET kept == SelectSeq(edits,
                    LAMBDA e : /\ EditConverts(mapper, d, e)
                               /\ CppToInoRangeOk(mapper, e.Range).file = uri)
    IN  [i \in 1..Len(kept) |->
            TextEdit(CppToInoRangeOk(mapper, kept[i].Range).range, kept[i].NewText)]

\* The handler of a workspace/applyEdit returns.
ApplyEditDone ==
    \E p \in ClangdTasks : pc[p] = "locked" /\ pc'[p] = "done"

\* C28: in the edit cpp2inoWorkspaceEdit makes, every entry of a file other
\* than the synthetic unit is unchanged; every edit of the synthetic unit
\* whose range converts is there exactly once, under the file it maps to,
\* with the translated range and its text, in the original order per file;
\* an edit that does not convert is left out and the others are not
\* affected; there is no entry for the synthetic unit.
C28_WorkspaceEditSplit ==
    [][ApplyEditDone
       => LET sent == ideOut'[Len(ideOut')]
              cpp == sent.from.Changes
              ino == sent.edit.Changes
              edits == IF CppURI \in DOMAIN cpp THEN cpp[CppURI] ELSE <<>>
              targets == {u \in {InoA, InoB, NotIno} :
                             EditsFor(sketchMapper, docs, edits, u) # <<>>}
          IN  /\ Len(ideOut') = Len(ideOut) + 1
              /\ \A u \in DOMAIN cpp \ {CppURI} : u \in DOMAIN ino /\ ino[u] = cpp[u]
              /\ CppURI \notin DOMAIN ino
              /\ DOMAIN ino = (DOMAIN cpp \ {CppURI}) \cup targets
              /\ \A u \in targets : ino[u] = EditsFor(sketchMapper, docs, edits, u)]_vars

\* With both tabs open, clangd's edit of five places of the synthetic unit
\* and one of another file reached the IDE as two edits of a.ino, one of
\* b.ino, one of the generated part and the one of the other file; the edit
\* from a.ino into b.ino is not there.
C28_Witness ==
    \E i \in 1..Len(ideOut) :
        /\ ideOut[i].method = "workspace/applyEdit"
        /\ ideOut[i].from =
              WorkspaceEdit((CppURI :> <<EditA, EditB, EditAcross, EditAdjusted, EditProto>>)
                            @@ (BuildCppX :> <<EditOther>>))
        /\ ideOut[i].edit =
              WorkspaceEdit((InoA :> <<TextEdit(LSPRange(1, 1, 1, 4), "1"),
                                       TextEdit(LSPRange(0, 0, 2, 0), "4")>>)
                            @@ (InoB :> <<TextEdit(LSPRange(0, 0, 0, 2), "2")>>)
                            @@ (NotIno :> <<TextEdit(LSPRange(0, 0, 0, 5), "5")>>)
                            @@ (BuildCppX :> <<EditOther>>))

\* The methods answered by a list of places.
LocationListMethods ==
    {"textDocument/definition", "textDocument/typeDefinition",
     "textDocument/implementation", "workspace/symbol", "textDocument/documentHighlight"}

\* The file and the range of the i-th element of a list clangd answered
\* with: a highlight is in the document the request was sent for.
CppPlace(reply, i) ==
    CASE reply.kind = "[]Location" -> reply.Items[i]
      [] reply.kind = "[]SymbolInformation" -> reply.Items[i].Location
      [] reply.kind = "[]DocumentHighlight" ->
            Location(ino2cppDocumentURI(ideMsg.uri), reply.Items[i].Range)

\* The i-th element of the list the IDE is given, likewise; a highlight
\* names no file.
InoPlace(result, i) ==
    CASE result.kind = "[]Location" -> result.Items[i]
      [] result.kind = "[]SymbolInformation" -> result.Items[i].Location
      [] result.kind = "[]DocumentHighlight" -> Location(Nil, result.Items[i].Range)

\* Both ends of a range of the synthetic unit are in one file, the end of a
\* range that stops at the start of a line being the line break before it.
EndsInOneFile(mapper, range) ==
    LET file(l) == mapper.Text[l + 1].File
    IN  \/ file(range.Start) = file(range.End)
        \/ range.EndCharacter = 0 /\ file(range.Start) = file(range.End - 1)

\* C29: a list of places (definition, typeDefinition, implementation,
\* workspace/symbol, documentHighlight) is given to the IDE whole, every
\* place of the synthetic unit with both its ends in one .ino file and in
\* that file's coordinates, a range adjusted at its last line break being as
\* good as any; when one element does not convert the result is null.
C29_LocationListsWholeOrNull ==
    [][AnsweredStep(LocationListMethods) /\ ideResult'.reply # NoResult
       => LET reply == ideResult'.reply
              result == ideResult'.result
              n == Len(reply.Items)
              inUnit(i) == CppPlace(reply, i).URI = CppURI
          IN  IF \A i \in 1..n :
                     inUnit(i) => RangeConverts(sketchMapper, docs, CppPlace(reply, i).Range)
              THEN /\ result.kind = reply.kind
                   /\ Len(result.Items) = n
                   /\ \A i \in 1..n :
                         inUnit(i)
                         => LET r == CppToInoRangeOk(sketchMapper, CppPlace(reply, i).Range)
                            IN  /\ EndsInOneFile(sketchMapper, CppPlace(reply, i).Range)
                                /\ InoPlace(result, i).Range = r.range
                                /\ InoPlace(result, i).URI \in {Nil, r.file}
              ELSE result = NoResult]_vars

\* With a.ino open, clangd answered a definition request with the whole of
\* a.ino up to its last line break and a place in a.ino: the IDE got both,
\* the first ending one line past the last line of a.ino.
C29_Witness ==
    /\ IdeDone
    /\ ideResult.method = "textDocument/definition"
    /\ ideResult.outcome = "result"
    /\ ideResult.reply = Locations(<<Location(CppURI, RangeAdjusted), Location(CppURI, RangeA)>>)
    /\ ideResult.result = Locations(<<Location(InoA, LSPRange(0, 0, 2, 0)),
                                      Location(InoA, LSPRange(1, 1, 1, 4))>>)

\* The characters a range is tried with.
RoundTripCharacters == {0, 2}

\* The valid ranges of the .ino file f: both ends are on lines the source
\* map has for f, the start not after the end.
ValidInoRanges(mapper, f) ==
    LET lines == {l \in 0..(Len(mapper.Text) - 1) : InoToCppLineOk(mapper, f, l).ok}
    IN  {range \in {LSPRange(sl, sc, el, ec) :
                        sl \in lines, el \in lines,
                        sc \in RoundTripCharacters, ec \in RoundTripCharacters} :
            range.Start <= range.End}

SentToClangd(method) == SelectSeq(clangdIn, LAMBDA m : m.method = method)

\* C36: whatever the IDE sends, more than one initialize included, at most
\* one clangd connection is ever created and clangd is sent at most one
\* initialize and at most one initialized.
C36_OneClangdOneInitialize ==
    /\ connsCreated <= 1
    /\ Len(SentToClangd("initialize")) <= 1
    /\ Len(SentToClangd("initialized")) <= 1

\* The rebuild runs initializeWorkbench and returns.
RebuildEnds == pc["rebuild"] = "locked" /\ pc'["rebuild"] = "idle"

\* C37: a rebuild sends its full-text didChange of the synthetic unit only
\* while clangd has the synthetic unit open, a .ino document being
\* tracked: a rebuild that runs after the last .ino document was closed
\* sends nothing.
C37_RebuildOnlyWhileOpen ==
    [][RebuildEnds /\ clangdIn' # clangdIn
       => OpenAtClangd(CppURI) /\ sketchTrackedFilesCount > 0]_vars

\* The words of the lines of a text of the synthetic unit.
Toks(text) == [i \in 1..Len(text) |-> text[i].Tok]

\* The text clangd has after the content changes of a didChange.
RECURSIVE ToldChanges(_, _)
ToldChanges(text, changes) ==
    IF changes = <<>> THEN text
    ELSE LET c == Head(changes)
         IN  ToldChanges(IF c.Range = NoRange THEN Toks(c.Text)
                         ELSE ReplaceLines(text, c.Range.Start + 1, c.Range.End + 1,
                                           c.Text),
                         Tail(changes))

\* The text and the version of the synthetic unit clangd has been told of.
RECURSIVE ClangdTold(_)
ClangdTold(msgs) ==
    IF msgs = <<>> THEN [Text |-> <<>>, Version |-> 0]
    ELSE LET m == msgs[Len(msgs)]
             before == ClangdTold(SubSeq(msgs, 1, Len(msgs) - 1))
         IN  IF m.uri # CppURI THEN before
             ELSE IF m.method = "textDocument/didOpen"
             THEN [Text |-> Toks(m.body), Version |-> m.version]
             ELSE IF m.method = "textDocument/didChange"
             THEN [Text |-> ToldChanges(before.Text, m.body), Version |-> m.version]
             ELSE before

\* The handler of a didChange of a .ino document returns.
InoDidChangeEnds ==
    /\ pc["ide"] = "locked" /\ pc'["ide"] = "idle"
    /\ ideMsg.method = "textDocument/didChange"
    /\ Ext(ideMsg.uri) = ".ino"

\* C34: a didChange of a .ino document is all or nothing. Once it is
\* handled, with success or with an error, the text and the version of the
\* source map are the ones clangd has been told of; and when it fails, none
\* of its content changes was applied to the tracked document or to the
\* source map and no rebuild was scheduled.
C34_DidChangeAllOrNothing ==
    [][InoDidChangeEnds /\ OpenAtClangd(CppURI)
       => /\ Toks(sketchMapper'.Text) = ClangdTold(clangdIn').Text
          /\ sketchMapper'.Version = ClangdTold(clangdIn').Version
          /\ clangdIn' = clangdIn
                => /\ docs' = docs
                   /\ sketchMapper' = sketchMapper
                   /\ rebuildSketchDeadline' = rebuildSketchDeadline]_vars

\* The symbol-check tasks a step posts.
PostedChecks == {t \in SymTasks : pc[t] = "none" /\ pc'[t] = "readOld"}

\* The handler of an IDE message returns having sent the message on to clangd.
IdeForwards ==
    /\ pc["ide"] = "locked" /\ pc'["ide"] = "idle"
    /\ clangdIn' # clangdIn

\* C33: once a diagnostic of a .ino batch with code undeclared_var_use (or
\* undeclared_var_use_suggest) has raised buildSketchSymbolsCheck, the next
\* IDE message that goes on to clangd, a didChange included, posts exactly
\* one symbol-check task and clears the flag; no check task is posted while
\* the flag is clear, and never two at once.
C33_CheckPostedOnce ==
    [][/\ PostedChecks # {} => buildSketchSymbolsCheck
       /\ Cardinality(PostedChecks) <= 1
       /\ IdeForwards /\ buildSketchSymbolsCheck
            => Cardinality(PostedChecks) = 1 /\ ~buildSketchSymbolsCheck']_vars

\* The message for the IDE names the generated part of the synthetic unit:
\* a batch of diagnostics by its URI, a workspace edit by an entry.
ForNotIno(m) ==
    IF "edit" \in DOMAIN m THEN NotIno \in DOMAIN m.edit.Changes
    ELSE m.uri = NotIno

\* The result given to the IDE names the generated part: a list of places
\* by a place, a workspace edit by an entry.
ResultForNotIno(result) ==
    CASE result.kind \in {"[]Location", "[]SymbolInformation"} ->
            \E i \in 1..Len(result.Items) : InoPlace(result, i).URI = NotIno
      [] result.kind = "WorkspaceEdit" -> NotIno \in DOMAIN result.Changes
      [] OTHER -> FALSE

\* C38: nothing sent to the IDE is addressed to the not-ino URI of the
\* generated lines: no batch of diagnostics, no place of a definition or
\* workspace-symbol answer, no entry of a translated workspace edit.
C38_NothingForNotIno ==
    /\ \A i \in 1..Len(ideOut) : ~ForNotIno(ideOut[i])
    /\ "result" \in DOMAIN ideResult => ~ResultForNotIno(ideResult.result)

\* The handlers of clangd's requests that wait for the IDE's reply.
Awaiting == {p \in ClangdTasks : pc[p] = "awaiting"}

\* C35: while a handler of a request of clangd holds the read lock and
\* waits for the IDE's reply, whatever the IDE sent before that reply, a
\* write-locked notification included, something can still go on: the
\* reader with the read lock, the handler that wants the write lock and the
\* reader of the IDE's messages are never all waiting for one another.
C35_ReplyNeverStuck == Awaiting # {} => ENABLED ReplyNext

\* createClangdFormatterConfig runs for the request r.
CreateStep(r) == fmtReq[r].pc = "none" /\ fmtReq'[r].pc # "none"

\* The request r goes on to clangd; the cleanup of the request r runs.
ForwardStep(r) == fmtReq[r].pc = "created" /\ fmtReq'[r].pc = "inflight"
CleanupStep(r) == fmtReq[r].pc = "replied" /\ fmtReq'[r].pc = "done"

\* The configuration by the order of preference: the sketch's own, the
\* user's, the baked-in one.
PreferredConfig(fs, conf) ==
    IF Exist(fs, SketchConf) THEN fs[SketchConf]
    ELSE IF conf # Nil /\ Exist(fs, conf) THEN fs[conf]
    ELSE DefaultConfig

\* The .clang-format of the directory of a target.
ConfNextTo(cppuri) ==
    Join(IF cppuri = BuildSketchRoot THEN cppuri ELSE BuildSketchRoot, ConfName)

C32_ConfigAroundRequest ==
    [][\A r \in FmtReqs :
          /\ ForwardStep(r) => Exist(disk, fmtReq[r].targetFile)
          /\ CleanupStep(r) => ~Exist(disk', fmtReq[r].targetFile)]_vars

\* C39: a .clang-format that was in the directory of the target before the
\* request is still there, with the content it had, after
\* createClangdFormatterConfig and the cleanup.
C39_ExistingConfigKept ==
    [][\A r \in FmtReqs :
          CleanupStep(r) /\ fmtReq[r].found = OtherStyle
          => disk'[fmtReq[r].targetFile] = OtherStyle]_vars

\* C40: with two formatting requests for the same directory at the same
\* time, the .clang-format is there for as long as clangd works on either:
\* the cleanup of one never removes it under the other.
C40_ConfigThereWhileInFlight ==
    \A r \in FmtReqs :
        fmtReq[r].pc = "inflight" => Exist(disk, fmtReq[r].targetFile)
====
